---- MODULE Spec2Model ----
(***************************************************************************)
(* Model of the QHAna plugin registry: the discovery crawler               *)
(* (tasks/plugin_discovery.py, db/util.py), the tab materializer           *)
(* (tasks/plugin_filter.py) and the recommendation orchestration           *)
(* (recommendations/voting.py).  Celery tasks are executed by workers that *)
(* interleave at database round trips.                                     *)
(***************************************************************************)
EXTENDS Bags, FiniteSets, Integers, Sequences, TLC

(***************************************************************************)
(* Bounds of the model.                                                    *)
(***************************************************************************)
MaxTime == 2        \* the clock runs over 0..MaxTime
MaxTicks == 1       \* runs of the periodic start_plugin_discovery
MaxPosts == 1       \* POST /plugins/ requests
MaxPurges == 2      \* runs of the periodic purge_plugins
MaxQueue == 2       \* messages the broker holds at once
MaxRequests == 1    \* GET /recommendations/ requests

(***************************************************************************)
(* Program constants.                                                      *)
(***************************************************************************)
MAX_NESTING == 3    \* discover_plugins_from_seeds: "if nesting > 3"

\* the guard of the per-seed task: "if nesting > 3: ... return"
nesting_too_deep_Late(nesting) == nesting > MAX_NESTING + 1
nesting_too_deep(nesting) == nesting > MAX_NESTING

Workers == {"w1", "w2"}

NoUrl == [host |-> "", path |-> <<>>]          \* Python None for a url
Url(h, p) == [host |-> h, path |-> p]

\* urls of the world around the registry
RunnerUrl == Url("docker", <<"r">>)
NestedRunnerUrl == Url("docker", <<"r", "n">>)
PluginUrls == {Url("docker", <<"r", "p1">>), Url("localhost", <<"r", "p2">>)}
\* the plugin urls a catalog can hold rows of, in the order of their ingest
CatalogUrls == <<Url("docker", <<"r", "p1">>), Url("localhost", <<"r", "p2">>),
                 Url("docker", <<"r", "p3">>)>>

\* a mimetype like string is the sequence of its parts around the first "/"
\* ("" is <<>>): <<"entity", "list">> is "entity/list", <<"entity">> "entity"
\* the self description a plugin url serves (name, version, type, tags and
\* the dataInput and pluginDependencies of its entry point)
PluginResource(url) ==
    CASE url.path = <<"r", "p1">> ->
           [name |-> "a", version |-> "1", type |-> "processing", tags |-> {"t1"},
            dataInput |-> {[parameter |-> "in1", required |-> TRUE,
                            dataType |-> <<"entity", "list">>,
                            contentType |-> {<<"application", "json">>}]},
            pluginDependencies |-> {}]
      [] url.path = <<"r", "p2">> ->
           [name |-> "b", version |-> "1", type |-> "visualization", tags |-> {},
            dataInput |-> {},
            pluginDependencies |-> {[parameter |-> "dep1", required |-> TRUE,
                                     name |-> "a", tags |-> {"t3"}]}]
      [] url.path = <<"r", "p3">> ->
           [name |-> "a", version |-> "2", type |-> "conversion", tags |-> {"t1", "t2"},
            dataInput |-> {[parameter |-> "in1", required |-> TRUE,
                            dataType |-> <<"entity">>,
                            contentType |-> {<<"text", "csv">>}],
                           [parameter |-> "in2", required |-> FALSE, dataType |-> <<>>,
                            contentType |-> {<<"application", "json">>}]},
            pluginDependencies |-> {}]
      [] url.path = <<"r", "p4">> ->
           [name |-> "c", version |-> "latest", type |-> "Processing",
            tags |-> {"t2"}, dataInput |-> {}, pluginDependencies |-> {}]

VARIABLES
    clock,        \* datetime.now(timezone.utc)
    config,       \* app.config: URL_MAP_TO_LOCALHOST, PLUGIN_PURGE_AFTER,
                  \* PLUGIN_BATCH_SIZE, PLUGIN_RECOMMENDER_WEIGHTS, RESULT_BACKEND
    seedTable,    \* table Seed: the seed urls in id order
    ramps,        \* table RAMP: a set of plugin rows
    nextRampId,   \* autoincrement of RAMP.id
    tagTable,     \* table PluginTag: the set of tag names
    owned,        \* tables DataToRamp, ContentTypeToData, DependencyToRAMP
    tabs,         \* table TemplateTab with RampToTemplateTab: sequence of rows, id = index
    queue,        \* the broker: a bag of task messages
    worker,       \* per worker: the task it executes and the task's locals
    budget,       \* how many external triggers have happened
    rec,          \* the recommendation request at hand and its voter tasks
    event         \* ghost: what the last step did (see Ev)

vars == <<clock, config, seedTable, ramps, nextRampId, tagTable, owned, tabs, queue,
          worker, budget, rec, event>>

Item(seed, root, nesting, dom) ==
    [seed |-> seed, root_seed |-> root, nesting |-> nesting, delete_on_missing |-> dom]

NoItem == Item(NoUrl, NoUrl, 0, FALSE)

\* the record of a step: the task item it ran, the answer to the request it
\* issued or the statement it committed ("none": neither), the exception that
\* ended the task ("none": the task went on or returned), the chunk items the
\* exception left unrun
Ev(step, item, resp, raised, lost) ==
    [step |-> step, item |-> item, resp |-> resp, raised |-> raised, dropped |-> lost]

NoEvent == Ev("other", NoItem, "none", "none", {})

Idle == [task |-> "idle"]

\* no recommendation request has been made
NoRequest == [pc |-> "idle"]

\* sequences as sets
Range(s) == {s[i] : i \in DOMAIN s}

(***************************************************************************)
(* tasks/url_mapped_requests.py                                            *)
(***************************************************************************)
\* is p a prefix of q
IsPrefix(p, q) == Len(p) <= Len(q) /\ SubSeq(q, 1, Len(p)) = p

\* one rewrite rule is <<pattern, replacement>>: the pattern is the start of
\* a url (a host and the first segments of a path), the replacement a host
PatternMatches(pattern, url) ==
    url.host = pattern.host /\ IsPrefix(pattern.path, url.path)

\* the rules are applied in sequence
RECURSIVE map_url(_, _)
map_url(url, rules) ==
    IF rules = <<>> THEN url
    ELSE map_url(IF PatternMatches(Head(rules)[1], url)
                 THEN [url EXCEPT !.host = Head(rules)[2]]
                 ELSE url,
                 Tail(rules))

\* pattern.sub(replacement, None) raises TypeError
map_url_raises(url, rules) == url = NoUrl /\ rules # <<>>

\* what a GET of url can answer; the world is free to answer anything
open_url(url) ==
    LET target == map_url(url, config.URL_MAP_FROM_LOCALHOST)
    IN  {"bad_json", "conn_error", "http_404", "http_500", "net_error", "not_dict"}
        \cup (IF target.path \in {u.path : u \in PluginUrls}
              THEN {"plugin", "bad_plugin"} ELSE {"runner"})

\* what GET url/plugins can answer: a list of apiRoots, or an error
RunnerListings == {<<>>, <<RunnerUrl>>, <<NestedRunnerUrl>>,
                   <<Url("docker", <<"r", "p1">>)>>,
                   <<Url("docker", <<"r", "p1">>), Url("localhost", <<"r", "p2">>)>>}
RunnerErrors == {"bad_json", "conn_error", "http_error", "net_error"}

(***************************************************************************)
(* The broker and the workers.                                             *)
(***************************************************************************)
QueueLen == BagCardinality(queue)
Enqueue(q, msgs) == q (+) msgs
MsgBag(msg) == SetToBag({msg})

ChunkMsg(items) == [task |-> "discover_plugins_from_seeds", items |-> items]

\* task.chunks(it, n).group(): one message per slice of n items
RECURSIVE chunks(_, _)
chunks(items, n) ==
    IF items = <<>> THEN EmptyBag
    ELSE IF Len(items) <= n THEN MsgBag(ChunkMsg(items))
    ELSE MsgBag(ChunkMsg(SubSeq(items, 1, n)))
         (+) chunks(SubSeq(items, n + 1, Len(items)), n)

\* xstarmap runs the items of a chunk one after the other: the worker after
\* the item at hand returned
AfterItem(w) ==
    IF Len(worker[w].items) = 1 THEN Idle
    ELSE [task |-> "discover_plugins_from_seeds",
          items |-> Tail(worker[w].items), pc |-> "request"]

\* the item at hand returned normally
FinishItem(w, step, resp) ==
    /\ worker' = [worker EXCEPT ![w] = AfterItem(w)]
    /\ event' = Ev(step, Head(worker[w].items), resp, "none", {})

\* the item at hand raised: the chunk task ends, its other items are not run
RaiseInChunk(w, step, resp, cause) ==
    /\ worker' = [worker EXCEPT ![w] = Idle]
    /\ event' = Ev(step, Head(worker[w].items), resp, cause,
                   Range(Tail(worker[w].items)))

(***************************************************************************)
(* tasks/plugin_discovery.py and db/util.py                                *)
(***************************************************************************)
\* the rows of tab memberships after the rows of the plugins gone cascaded
Cascade(gone) ==
    [t \in DOMAIN tabs |->
       [tabs[t] EXCEPT !.plugins = SelectSeq(@, LAMBDA i : i \notin gone)]]

\* the tables of the owned objects after the rows of the plugins gone
\* cascaded: ON DELETE CASCADE from RAMP to DataToRamp and DependencyToRAMP
\* and from DataToRamp to ContentTypeToData
CascadeOwned_DataOnly(gone) ==
    [owned EXCEPT !.data = {d \in @ : d.ramp_id \notin gone}]
CascadeOwned(gone) ==
    LET data_gone == {d.id : d \in {x \in owned.data : x.ramp_id \in gone}}
    IN  [data |-> {d \in owned.data : d.ramp_id \notin gone},
         content_types |-> {c \in owned.content_types : c.data_id \notin data_gone},
         dependencies |-> {d \in owned.dependencies : d.ramp_id \notin gone}]

\* _delete_plugin(url): DELETE FROM RAMP WHERE url = :url
_delete_plugin(url) ==
    /\ ramps' = {r \in ramps : r.url # url}
    /\ tabs' = Cascade({r.id : r \in {x \in ramps : x.url = url}})
    /\ owned' = CascadeOwned({r.id : r \in {x \in ramps : x.url = url}})

FoundPlugin(data) ==
    {r \in ramps : r.plugin_id = data.name /\ r.version = data.version}

\* the second request of a runner fails with one of these, and
\* "except JSONDecodeError or ConnectionError or RequestException" catches
\* JSONDecodeError only
RunnerException(err) ==
    CASE err = "conn_error" -> "ConnectionError"
      [] err = "http_error" -> "HTTPError"
      [] err = "net_error" -> "RequestException"

\* the first part of discover_plugins_from_seeds: the nesting guard, the
\* requests, and update_plugin_data up to the construction of the row
DiscoverRequest(w) ==
    /\ worker[w].task = "discover_plugins_from_seeds"
    /\ worker[w].pc = "request"
    /\ UNCHANGED <<rec, clock, config, seedTable, nextRampId, tagTable, budget>>
    /\ LET item == Head(worker[w].items) IN
       IF nesting_too_deep(item.nesting)
       THEN \* nested too deep, aborting
            /\ FinishItem(w, "request", "none")
            /\ UNCHANGED <<ramps, owned, tabs, queue>>
       ELSE
       \E resp \in open_url(item.seed) :
         CASE resp \in {"bad_json", "http_500", "net_error"} ->
                /\ FinishItem(w, "request", resp)
                /\ UNCHANGED <<ramps, owned, tabs, queue>>
           [] resp \in {"conn_error", "http_404"} ->
                /\ FinishItem(w, "request", resp)
                /\ IF item.delete_on_missing
                   THEN _delete_plugin(item.seed)
                   ELSE UNCHANGED <<ramps, owned, tabs>>
                /\ UNCHANGED queue
           [] resp = "not_dict" ->
                \* data.keys() on a JSON value that is no object
                /\ RaiseInChunk(w, "request", resp, "AttributeError")
                /\ UNCHANGED <<ramps, owned, tabs, queue>>
           [] resp \in {"plugin", "bad_plugin"} ->
                LET data == PluginResource(item.seed)
                    rules == config.URL_MAP_TO_LOCALHOST
                    found == FoundPlugin(data)
                IN  /\ UNCHANGED <<ramps, owned, tabs, queue>>
                    /\ IF map_url_raises(item.root_seed, rules)
                       THEN RaiseInChunk(w, "request", resp, "TypeError")
                       ELSE IF found = {} /\ item.root_seed # NoUrl
                               /\ map_url(item.root_seed, rules) \notin Range(seedTable)
                       THEN RaiseInChunk(w, "request", resp, "NoResultFound")
                       ELSE IF found = {} /\ resp = "bad_plugin"
                       THEN RaiseInChunk(w, "request", resp, "KeyError")
                       ELSE
                         /\ worker' = [worker EXCEPT ![w] =
                              [task |-> "discover_plugins_from_seeds",
                               items |-> worker[w].items, pc |-> "commit",
                               now |-> clock,
                               found |-> IF found = {} THEN 0
                                         ELSE (CHOOSE r \in found : TRUE).id,
                               url |-> map_url(item.seed, rules),
                               seed_url |-> IF item.root_seed = NoUrl THEN NoUrl
                                            ELSE map_url(item.root_seed, rules)]]
                         /\ event' = Ev("request", item, resp, "none", {})
           [] resp = "runner" ->
                /\ UNCHANGED <<ramps, owned, tabs>>
                /\ \/ \E err \in RunnerErrors :
                       IF err = "bad_json"
                       THEN FinishItem(w, "request", err) /\ UNCHANGED queue
                       ELSE /\ RaiseInChunk(w, "request", err, RunnerException(err))
                            /\ UNCHANGED queue
                   \/ \E listing \in RunnerListings :
                       LET root == IF item.root_seed # NoUrl
                                   THEN item.root_seed ELSE item.seed
                           plugin_seeds ==
                             [i \in DOMAIN listing |->
                                Item(listing[i], root, item.nesting + 1, FALSE)]
                           msgs == chunks(plugin_seeds, config.PLUGIN_BATCH_SIZE)
                       IN  /\ QueueLen + BagCardinality(msgs) <= MaxQueue
                           /\ queue' = Enqueue(queue, msgs)
                           /\ FinishItem(w, "request", "runner")

\* split and normalize a mimetype like string on the first "/"
split_mimetype(mimetype_like) ==
    IF mimetype_like = <<>> THEN <<"*", "*">>
    ELSE <<IF mimetype_like[1] # "" THEN mimetype_like[1] ELSE "*",
           IF Len(mimetype_like) > 1 /\ mimetype_like[2] # ""
           THEN mimetype_like[2] ELSE "*">>

\* the DataToRAMP objects (with their ContentTypeToData objects) of the data
\* inputs of an entry point
_prepare_plugin_data(entry_point) ==
    {[identifier |-> input.parameter,
      relation |-> "consumed", required |-> input.required,
      data_type_start |-> split_mimetype(input.dataType)[1],
      data_type_end |-> split_mimetype(input.dataType)[2],
      content_types |-> {split_mimetype(c) : c \in input.contentType}]
        : input \in entry_point.dataInput}

\* the DependencyToRAMP objects (with their tag filter) of an entry point
_prepare_dependencies(entry_point) ==
    {[parameter |-> dependency.parameter, required |-> dependency.required,
      plugin_id |-> dependency.name, dependency_tags |-> dependency.tags]
        : dependency \in entry_point.pluginDependencies}

\* the rows the flush of a new plugin writes to the tables of the objects it
\* owns; the id of a data row is any value unique to it: here the plugin row
\* and the identifier
OwnedRows(ramp_id, entry_point) ==
    LET data == _prepare_plugin_data(entry_point)
        data_id(d) == <<ramp_id, d.identifier>>
    IN  [data |-> {[id |-> data_id(d), ramp_id |-> ramp_id, identifier |-> d.identifier,
                    relation |-> d.relation, required |-> d.required,
                    data_type_start |-> d.data_type_start,
                    data_type_end |-> d.data_type_end] : d \in data},
         content_types |-> UNION {{[data_id |-> data_id(d), content_type_start |-> c[1],
                                    content_type_end |-> c[2]] : c \in d.content_types}
                                     : d \in data},
         dependencies |-> {[ramp_id |-> ramp_id, parameter |-> d.parameter,
                            required |-> d.required, plugin_id |-> d.plugin_id,
                            dependency_tags |-> d.dependency_tags]
                               : d \in _prepare_dependencies(entry_point)}]

NoOwnedRows == [data |-> {}, content_types |-> {}, dependencies |-> {}]

\* the tables after rows were added
WithOwned(tables, rows) ==
    [data |-> tables.data \cup rows.data,
     content_types |-> tables.content_types \cup rows.content_types,
     dependencies |-> tables.dependencies \cup rows.dependencies]

\* the tables of a catalog whose plugins were all ingested
RECURSIVE OwnedBy(_)
OwnedBy(rows) ==
    IF rows = {} THEN NoOwnedRows
    ELSE LET r == CHOOSE x \in rows : TRUE
         IN  WithOwned(OwnedBy(rows \ {r}), OwnedRows(r.id, PluginResource(r.url)))

\* the tags PluginTag.get_or_create is called with for a plugin: its own tags
\* and the tags of its dependencies
TagsOf(data) == data.tags \cup UNION {d.tags : d \in data.pluginDependencies}

\* the row update_plugin_data builds for a plugin it did not find; origin is
\* a ghost field: the url the task was called with
NewRamp(id, data, url, seed_url, now, origin) ==
    [id |-> id, plugin_id |-> data.name, version |-> data.version,
     plugin_type |-> data.type, tags |-> data.tags, url |-> url,
     seed |-> seed_url, last_available |-> now, origin |-> origin]

UpdateMsg(plugin_id) == [task |-> "update_plugin_lists", plugin_id |-> plugin_id]

\* the INSERT of a new plugin row passes UniqueConstraint("plugin_id", "version")
UniqueOk_NoConstraint(data) == TRUE
UniqueOk(data) == FoundPlugin(data) = {}

\* is_new_plugin = not found_plugin, found being the id selected or 0
is_new_plugin_Negated(found) == found # 0
is_new_plugin(found) == found = 0

\* update_plugin_lists.delay(plugin.id) "if is_new_plugin"
DelayUpdate(found, plugin_id) ==
    IF is_new_plugin(found) THEN Enqueue(queue, MsgBag(UpdateMsg(plugin_id))) ELSE queue

\* the second part of update_plugin_data: last_available = now, add, commit;
\* then update_plugin_lists.delay(plugin.id) for a new plugin
update_plugin_data(w) ==
    LET loc == worker[w]
        item == Head(loc.items)
        data == PluginResource(item.seed)
    IN  IF loc.found = 0
        THEN IF ~UniqueOk(data)
             THEN /\ RaiseInChunk(w, "commit", "insert", "IntegrityError")
                  /\ UNCHANGED <<ramps, nextRampId, tagTable, owned, queue>>
             ELSE /\ QueueLen < MaxQueue
                  /\ ramps' = ramps \cup {NewRamp(nextRampId, data, loc.url,
                                                  loc.seed_url, loc.now, item.seed)}
                  /\ nextRampId' = nextRampId + 1
                  /\ tagTable' = tagTable \cup TagsOf(data)
                  /\ owned' = WithOwned(owned, OwnedRows(nextRampId, data))
                  /\ queue' = DelayUpdate(loc.found, nextRampId)
                  /\ FinishItem(w, "commit", "insert")
        ELSE IF \E r \in ramps : r.id = loc.found
             THEN /\ ramps' = {IF r.id = loc.found
                               THEN [r EXCEPT !.last_available = loc.now]
                               ELSE r : r \in ramps}
                  /\ queue' = DelayUpdate(loc.found, loc.found)
                  /\ FinishItem(w, "commit", "update")
                  /\ UNCHANGED <<nextRampId, tagTable, owned>>
             ELSE \* the row was deleted after the SELECT: the UPDATE matches no row
                  /\ RaiseInChunk(w, "commit", "update", "StaleDataError")
                  /\ UNCHANGED <<ramps, nextRampId, tagTable, owned, queue>>

DiscoverCommit(w) ==
    /\ worker[w].task = "discover_plugins_from_seeds"
    /\ worker[w].pc = "commit"
    /\ update_plugin_data(w)
    /\ UNCHANGED <<rec, clock, config, seedTable, tabs, budget>>

\* the periodic task: one chunk message per PLUGIN_BATCH_SIZE seeds
start_plugin_discovery ==
    LET items == [i \in DOMAIN seedTable |-> Item(seedTable[i], NoUrl, 0, FALSE)]
        msgs == chunks(items, config.PLUGIN_BATCH_SIZE)
    IN  /\ budget.ticks < MaxTicks
        /\ QueueLen + BagCardinality(msgs) <= MaxQueue
        /\ queue' = Enqueue(queue, msgs)
        /\ budget' = [budget EXCEPT !.ticks = @ + 1]
        /\ event' = NoEvent
        /\ UNCHANGED <<rec, clock, config, seedTable, ramps, nextRampId, tagTable, owned, tabs,
                       worker>>

\* api/plugins/root.py, PluginsRootView.post: the first seed (shortest url
\* first) with the netloc of url and a path that is a prefix of its path
PostPlugins(url) ==
    LET matching == {i \in DOMAIN seedTable :
                       /\ seedTable[i].host = url.host
                       /\ IsPrefix(seedTable[i].path, url.path)}
        first == CHOOSE i \in matching :
                   \A j \in matching : Len(seedTable[i].path) <= Len(seedTable[j].path)
    IN  /\ budget.posts < MaxPosts
        /\ budget' = [budget EXCEPT !.posts = @ + 1]
        /\ event' = NoEvent
        /\ IF matching = {}
           THEN UNCHANGED queue
           ELSE /\ QueueLen < MaxQueue
                /\ queue' = Enqueue(queue,
                      MsgBag(ChunkMsg(<<Item(url, seedTable[first], 0, TRUE)>>)))
        /\ UNCHANGED <<rec, clock, config, seedTable, ramps, nextRampId, tagTable, owned, tabs,
                       worker>>

\* PLUGIN_PURGE_AFTER = "auto": ten discovery intervals
PLUGIN_DISCOVERY_INTERVAL == 900

\* the seconds purge_plugins purges after, -1 for "do not purge"
PurgeSeconds(purge_after) ==
    CASE purge_after.kind = "never" -> -1
      [] purge_after.kind = "auto" -> PLUGIN_DISCOVERY_INTERVAL * 10
      [] purge_after.kind = "seconds" -> purge_after.value

\* SELECT last_available FROM RAMP ORDER BY last_available DESC, first row
latest_date_Now(rows) == clock
latest_date(rows) ==
    CHOOSE d \in {r.last_available : r \in rows} : \A r \in rows : r.last_available <= d

\* DELETE FROM RAMP WHERE last_available < latest_date - purge_after
PurgedRamps_Inclusive(rows, seconds) ==
    {r \in rows : r.last_available <= latest_date(rows) - seconds}
PurgedRamps(rows, seconds) ==
    {r \in rows : r.last_available < latest_date(rows) - seconds}

purge_plugins ==
    LET seconds == PurgeSeconds(config.PLUGIN_PURGE_AFTER)
        gone == IF seconds = -1 \/ ramps = {} THEN {} ELSE PurgedRamps(ramps, seconds)
    IN  /\ budget.purges < MaxPurges
        /\ budget' = [budget EXCEPT !.purges = @ + 1]
        /\ ramps' = ramps \ gone
        /\ tabs' = Cascade({r.id : r \in gone})
        /\ owned' = CascadeOwned({r.id : r \in gone})
        /\ event' = Ev("purge", NoItem, "none", "none", {})
        /\ UNCHANGED <<rec, clock, config, seedTable, nextRampId, tagTable, queue, worker>>

Tick ==
    /\ clock < MaxTime
    /\ clock' = clock + 1
    /\ event' = NoEvent
    /\ UNCHANGED <<rec, config, seedTable, ramps, nextRampId, tagTable, owned, tabs, queue,
                   worker, budget>>

(***************************************************************************)
(* tasks/plugin_filter.py and db/models/templates.py                       *)
(***************************************************************************)
\* evaluate_plugin_filter reads the table in batches of this many rows
\* (500 in the source, scaled to the size of the modelled catalog)
DEFAULT_BATCH_SIZE == 2

\* TemplateTab.filter_string: the empty string or the text of a JSON value
EMPTY_STRING == [empty |-> TRUE]
json_dumps(value) == [json |-> value]
json_loads_raises(text) == "json" \notin DOMAIN text
json_loads(text) == text.json

\* str.lower() on the plugin types that occur
lower(str) == IF str = "Processing" THEN "processing" ELSE str

Has(filter_dict, key) == key \in DOMAIN filter_dict

\* packaging.version.Version(text): the release of a PEP 440 version text,
\* InvalidVersion for a text that is none
InvalidVersion == <<-1>>
Version(text) ==
    CASE text = "1" -> <<1>>
      [] text = "1.0" -> <<1, 0>>
      [] text = "1.5" -> <<1, 5>>
      [] text = "2" -> <<2>>
      [] OTHER -> InvalidVersion

\* the order of two releases, the shorter one padded with zeros: -1, 0 or 1
RECURSIVE CompareRelease(_, _)
CompareRelease(a, b) ==
    IF a = <<>> /\ b = <<>> THEN 0
    ELSE LET x == IF a = <<>> THEN 0 ELSE Head(a)
             y == IF b = <<>> THEN 0 ELSE Head(b)
         IN  IF x < y THEN -1
             ELSE IF x > y THEN 1
             ELSE CompareRelease(IF a = <<>> THEN a ELSE Tail(a),
                                 IF b = <<>> THEN b ELSE Tail(b))

\* packaging.specifiers.SpecifierSet(text): the clauses between the commas,
\* InvalidSpecifier for a text with a part that is no clause
InvalidSpecifier == {[op |-> "invalid", version |-> ""]}
SpecifierSet(text) ==
    CASE text = "" -> {}
      [] text = "==1.0" -> {[op |-> "==", version |-> "1.0"]}
      [] text = "!=1" -> {[op |-> "!=", version |-> "1"]}
      [] text = "<2" -> {[op |-> "<", version |-> "2"]}
      [] text = ">=1.5" -> {[op |-> ">=", version |-> "1.5"]}
      [] text = ">=1,<2" -> {[op |-> ">=", version |-> "1"], [op |-> "<", version |-> "2"]}
      [] OTHER -> InvalidSpecifier

\* Specifier.contains for a parsed version
ClauseContains(clause, version) ==
    LET order == CompareRelease(version, Version(clause.version))
    IN  CASE clause.op = "==" -> order = 0
          [] clause.op = "!=" -> order # 0
          [] clause.op = "<" -> order < 0
          [] clause.op = ">=" -> order >= 0

\* "version in specifier" for a parsed version: every clause contains it
SpecifierContains(specifier, version) ==
    \A clause \in specifier : ClauseContains(clause, version)

\* the exception get_plugins_from_filter ends with, "none" if it returns:
\* Version(p.version) raises InvalidVersion for a plugin whose version is no
\* PEP 440 version, and RAMP has no attribute full_id
RECURSIVE get_plugins_from_filter_raises(_, _)
RECURSIVE FirstRaised(_, _)
FirstRaised(filter_expr, plugin_mapping) ==
    IF filter_expr = <<>> THEN "none"
    ELSE LET raised == get_plugins_from_filter_raises(Head(filter_expr), plugin_mapping)
         IN  IF raised # "none" THEN raised
             ELSE FirstRaised(Tail(filter_expr), plugin_mapping)
get_plugins_from_filter_raises(filter_dict, plugin_mapping) ==
    CASE "and" \in DOMAIN filter_dict -> FirstRaised(filter_dict["and"], plugin_mapping)
      [] "or" \in DOMAIN filter_dict -> FirstRaised(filter_dict["or"], plugin_mapping)
      [] "not" \in DOMAIN filter_dict ->
           get_plugins_from_filter_raises(filter_dict["not"], plugin_mapping)
      [] "tag" \in DOMAIN filter_dict -> "none"
      [] "version" \in DOMAIN filter_dict ->
           IF /\ SpecifierSet(filter_dict["version"]) # InvalidSpecifier
              /\ \E p \in plugin_mapping : Version(p.version) = InvalidVersion
           THEN "InvalidVersion" ELSE "none"
      [] "id" \in DOMAIN filter_dict ->
           IF plugin_mapping # {} THEN "AttributeError" ELSE "none"
      [] OTHER -> "none"

RECURSIVE Intersection(_)
Intersection(sets) ==
    IF Len(sets) = 1 THEN sets[1] ELSE sets[1] \cap Intersection(Tail(sets))

\* get_plugins_from_filter: the ids of the rows of plugin_mapping that match
RECURSIVE get_plugins_from_filter(_, _)
get_plugins_from_filter(filter_dict, plugin_mapping) ==
    CASE Has(filter_dict, "and") ->
           IF filter_dict["and"] = <<>> THEN {}
           ELSE Intersection([i \in DOMAIN filter_dict["and"] |->
                   get_plugins_from_filter(filter_dict["and"][i], plugin_mapping)])
      [] Has(filter_dict, "or") ->
           UNION {get_plugins_from_filter(filter_dict["or"][i], plugin_mapping) :
                    i \in DOMAIN filter_dict["or"]}
      [] Has(filter_dict, "not") ->
           {p.id : p \in plugin_mapping}
             \ get_plugins_from_filter(filter_dict["not"], plugin_mapping)
      [] Has(filter_dict, "tag") ->
           {p.id : p \in {x \in plugin_mapping : filter_dict["tag"] \in x.tags}}
      [] Has(filter_dict, "version") ->
           IF SpecifierSet(filter_dict["version"]) = InvalidSpecifier THEN {}
           ELSE {p.id : p \in {x \in plugin_mapping :
                   SpecifierContains(SpecifierSet(filter_dict["version"]),
                                     Version(x.version))}}
      [] Has(filter_dict, "id") ->
           {}  \* of an empty plugin_mapping; p.full_id raises for any plugin
      [] Has(filter_dict, "type") ->
           {p.id : p \in {x \in plugin_mapping :
                            lower(x.plugin_type) = lower(filter_dict["type"])}}
      [] OTHER -> {}  \* "Invalid filter", also for the empty dict

\* the ids of a set in ascending order
RECURSIVE SortedSeq(_)
SortedSeq(ids) ==
    IF ids = {} THEN <<>>
    ELSE LET least == CHOOSE i \in ids : \A j \in ids : i <= j
         IN  <<least>> \o SortedSeq(ids \ {least})

\* DB.session.query(RAMP).limit(limit).offset(offset), rows in id order
RampBatch(limit, offset) ==
    LET ids == SortedSeq({r.id : r \in ramps})
        window == {ids[i] : i \in {j \in DOMAIN ids : j > offset /\ j <= offset + limit}}
    IN  {r \in ramps : r.id \in window}

ApplyMsg(tab_id) == [task |-> "apply_filter_for_tab", tab_id |-> tab_id]

MaterializerTasks == {"apply_filter_for_tab", "update_plugin_lists"}

\* the next tab of update_plugin_lists, or the end of the task
NextTab(w) ==
    IF Len(worker[w].todo) = 1 THEN Idle
    ELSE [worker[w] EXCEPT !.todo = Tail(@), !.pc = "count"]

\* evaluate_plugin_filter(tab.plugin_filter) up to the count of the rows
EvalCount(w) ==
    /\ worker[w].task \in MaterializerTasks
    /\ worker[w].pc = "count"
    /\ LET text == tabs[Head(worker[w].todo)].filter_string
           count == Cardinality(ramps)
       IN  IF json_loads_raises(text)
           THEN /\ worker' = [worker EXCEPT ![w] = Idle]
                /\ event' = Ev("count", NoItem, "none", "JSONDecodeError", {})
           ELSE /\ worker' = [worker EXCEPT ![w] =
                     [@ EXCEPT !.pc = IF count = 0 THEN "write" ELSE "batch",
                               !.filter = json_loads(text), !.count = count,
                               !.offset = 0, !.plugins = <<>>]]
                /\ event' = NoEvent
    /\ UNCHANGED <<rec, clock, config, seedTable, ramps, nextRampId, tagTable, owned, tabs,
                   queue, budget>>

\* one batch of evaluate_plugin_filter
EvalBatch(w) ==
    /\ worker[w].task \in MaterializerTasks
    /\ worker[w].pc = "batch"
    /\ LET loc == worker[w]
           plugin_mapping == RampBatch(DEFAULT_BATCH_SIZE, loc.offset)
           raised == get_plugins_from_filter_raises(loc.filter, plugin_mapping)
           p_ids == get_plugins_from_filter(loc.filter, plugin_mapping)
           offset == loc.offset + DEFAULT_BATCH_SIZE
       IN  IF raised # "none"
           THEN /\ worker' = [worker EXCEPT ![w] = Idle]
                /\ event' = Ev("batch", NoItem, "none", raised, {})
           ELSE /\ worker' = [worker EXCEPT ![w] =
                     [@ EXCEPT !.plugins = @ \o SortedSeq(p_ids), !.offset = offset,
                               !.pc = IF offset >= loc.count THEN "write" ELSE "batch"]]
                /\ event' = NoEvent
    /\ UNCHANGED <<rec, clock, config, seedTable, ramps, nextRampId, tagTable, owned, tabs,
                   queue, budget>>

NoDuplicates(seq) == \A i, j \in DOMAIN seq : seq[i] = seq[j] => i = j

\* tab.plugins = plugins; DB.session.commit()
\* apply_filter_for_tab always writes, update_plugin_lists only the tabs
\* whose result holds plugin_id
WriteTab(w) ==
    /\ worker[w].task \in MaterializerTasks
    /\ worker[w].pc = "write"
    /\ LET loc == worker[w]
           tab == Head(loc.todo)
       IN  IF loc.task = "update_plugin_lists" /\ loc.plugin_id \notin Range(loc.plugins)
           THEN /\ worker' = [worker EXCEPT ![w] = NextTab(w)]
                /\ event' = NoEvent
                /\ UNCHANGED tabs
           ELSE IF /\ NoDuplicates(loc.plugins)
                   /\ Range(loc.plugins) \subseteq {r.id : r \in ramps}
           THEN /\ tabs' = [tabs EXCEPT ![tab].plugins = loc.plugins]
                /\ worker' = [worker EXCEPT ![w] = NextTab(w)]
                /\ event' = Ev("write", NoItem, "none", "none", {})
           ELSE \* primary key or foreign key of RampToTemplateTab violated
                /\ worker' = [worker EXCEPT ![w] = Idle]
                /\ event' = Ev("write", NoItem, "none", "IntegrityError", {})
                /\ UNCHANGED tabs
    /\ UNCHANGED <<rec, clock, config, seedTable, ramps, nextRampId, tagTable, owned,
                   queue, budget>>

\* a worker takes a message from the broker and enters the task
TakeTask(w) ==
    /\ worker[w] = Idle
    /\ \E msg \in BagToSet(queue) :
         /\ queue' = queue (-) MsgBag(msg)
         /\ worker' = [worker EXCEPT ![w] =
              CASE msg.task = "discover_plugins_from_seeds" ->
                     [task |-> msg.task, items |-> msg.items, pc |-> "request"]
                [] msg.task = "apply_filter_for_tab" ->
                     \* TemplateTab.get_by_id(tab_id), "not found" returns
                     IF msg.tab_id \in DOMAIN tabs
                     THEN [task |-> msg.task, plugin_id |-> 0, todo |-> <<msg.tab_id>>,
                           pc |-> "count", filter |-> <<>>, count |-> 0,
                           offset |-> 0, plugins |-> <<>>]
                     ELSE Idle
                [] msg.task = "update_plugin_lists" ->
                     \* DB.session.query(TemplateTab).all()
                     IF tabs = <<>> THEN Idle
                     ELSE [task |-> msg.task, plugin_id |-> msg.plugin_id,
                           todo |-> [i \in DOMAIN tabs |-> i],
                           pc |-> "count", filter |-> <<>>, count |-> 0,
                           offset |-> 0, plugins |-> <<>>]]
    /\ event' = NoEvent
    /\ UNCHANGED <<rec, clock, config, seedTable, ramps, nextRampId, tagTable, owned, tabs,
                   budget>>

(***************************************************************************)
(* api/template_tabs                                                       *)
(***************************************************************************)
MaxTabs == 2

\* the filter_string of a request body: the empty string, a text that is no
\* JSON, or the text of a JSON value, given by the syntax of the value
NOT_JSON == [not_json |-> TRUE]
JsonObject(members) == [kind |-> "object", members |-> members]  \* <<key, value>> pairs
JsonArray(elements) == [kind |-> "array", elements |-> elements]
JsonString(value) == [kind |-> "string", value |-> value]
JsonNumber(number) == [kind |-> "number", number |-> number]
JsonText(syntax) == [syntax |-> syntax]

\* json.loads of the text of a JSON value: a dict is the function of its
\* keys, a list a sequence
RECURSIVE decode(_)
RECURSIVE decode_members(_)
decode_members(members) ==
    IF members = <<>> THEN <<>>
    ELSE (Head(members)[1] :> decode(Head(members)[2])) @@ decode_members(Tail(members))
decode(syntax) ==
    CASE syntax.kind = "object" -> decode_members(syntax.members)
      [] syntax.kind = "array" ->
           [i \in DOMAIN syntax.elements |-> decode(syntax.elements[i])]
      [] syntax.kind = "string" -> syntax.value
      [] syntax.kind = "number" -> syntax.number

\* len(value) of a JSON value: a number has none
json_len(syntax) ==
    CASE syntax.kind = "object" -> Len(syntax.members)
      [] syntax.kind = "array" -> Len(syntax.elements)
      [] syntax.kind = "string" -> Len(syntax.value)
      [] syntax.kind = "number" -> -1

\* TemplateTabSchema.validate_filter: the exception it raises, "none" if it
\* returns
RECURSIVE validate_filter(_)
RECURSIVE validate_filters(_)
validate_filters(elements) ==
    IF elements = <<>> THEN "none"
    ELSE LET raised == validate_filter(Head(elements))
         IN  IF raised # "none" THEN raised ELSE validate_filters(Tail(elements))
validate_filter(filter_dict) ==
    IF json_len(filter_dict) = -1 THEN "TypeError"           \* len() of a number
    ELSE IF json_len(filter_dict) = 0 THEN "none"
    ELSE IF json_len(filter_dict) > 1 THEN "ValidationError"  \* only one key per level
    ELSE IF filter_dict.kind # "object" THEN "AttributeError" \* filter_dict.keys()
    ELSE LET key == filter_dict.members[1][1]
             value == filter_dict.members[1][2]
         IN  CASE key \in {"and", "or"} ->
                    IF value.kind # "array" THEN "ValidationError"
                    ELSE validate_filters(value.elements)
               [] key = "not" -> validate_filter(value)
               [] key \in {"name", "tag", "id", "type"} ->
                    IF value.kind # "string" THEN "ValidationError" ELSE "none"
               [] key = "version" ->
                    IF value.kind # "string" THEN "ValidationError"
                    ELSE IF SpecifierSet(value.value) = InvalidSpecifier
                    THEN "ValidationError" ELSE "none"
               [] OTHER -> "ValidationError"                   \* unknown key

\* TemplateTabSchema.validate_filter_string
validate_filter_string(value) ==
    IF value = EMPTY_STRING THEN "none"
    ELSE IF value = NOT_JSON THEN "ValidationError"
    ELSE validate_filter(value.syntax)

\* the status of the response to a request whose body the schema turned
\* down: flask-smorest answers a ValidationError of the arguments schema
\* with 422, any other exception is an internal server error
ValidationStatus(raised) ==
    CASE raised = "none" -> "200"
      [] raised = "ValidationError" -> "422"
      [] OTHER -> "500"

\* the column TemplateTab.filter_string for a posted text
StoredText(value) ==
    IF value = EMPTY_STRING THEN EMPTY_STRING ELSE json_dumps(decode(value.syntax))

Tag_t1 == JsonObject(<< <<"tag", JsonString("t1")>> >>)

FilterStrings == {EMPTY_STRING, JsonText(JsonObject(<<>>)), JsonText(Tag_t1),
                  JsonText(JsonObject(<< <<"not", Tag_t1>> >>))}

\* TemplateTabsRootView.post: the arguments schema validates the body; then
\* the row is committed and the task is sent
PostTab(filter_string) ==
    LET raised == validate_filter_string(filter_string) IN
    /\ IF raised # "none"
       THEN UNCHANGED <<tabs, queue>>
       ELSE /\ Len(tabs) < MaxTabs
            /\ QueueLen < MaxQueue
            /\ tabs' = Append(tabs, [filter_string |-> StoredText(filter_string),
                                     plugins |-> <<>>])
            /\ queue' = Enqueue(queue, MsgBag(ApplyMsg(Len(tabs) + 1)))
    /\ event' = Ev("post", NoItem, ValidationStatus(raised), "none", {})
    /\ UNCHANGED <<rec, clock, config, seedTable, ramps, nextRampId, tagTable, owned,
                   worker, budget>>

\* TemplateTabView.put: template_tab_data has no key "plugin_filter" (the
\* schema loads "filter_string"), so the handler raises KeyError before the
\* commit and before apply_filter_for_tab.delay
PutTab(tab_id, filter_string) ==
    /\ tab_id \in DOMAIN tabs
    /\ event' = Ev("put", NoItem, "none", "KeyError", {})
    /\ UNCHANGED <<rec, clock, config, seedTable, ramps, nextRampId, tagTable, owned, tabs,
                   queue, worker, budget>>


(***************************************************************************)
(* The crawler: discovery ticks, POST /plugins/, and the workers that run  *)
(* the chunk tasks; no tab exists.                                         *)
(***************************************************************************)
\* no rule, a rule for every url of the host, a rule for the plugin urls only
ToLocalhostRules == {<<>>,
                     << <<Url("docker", <<>>), "localhost">> >>,
                     << <<Url("docker", <<"r", "p1">>), "localhost">> >>}
BatchSizes == {1, 2}
SeedTables == {<<RunnerUrl>>,
               <<Url("docker", <<"r", "p1">>), Url("localhost", <<"r", "p2">>)>>}

InitCrawl ==
    /\ clock = 0
    /\ config \in [URL_MAP_TO_LOCALHOST : ToLocalhostRules,
                   URL_MAP_FROM_LOCALHOST : {<<>>},
                   PLUGIN_PURGE_AFTER : {[kind |-> "never"]},
                   PLUGIN_BATCH_SIZE : BatchSizes,
                   PLUGIN_RECOMMENDER_WEIGHTS : {<<>>},
                   RESULT_BACKEND : {"database"}]
    /\ seedTable \in SeedTables
    /\ ramps = {}
    /\ nextRampId = 1
    /\ tagTable = {}
    /\ owned = NoOwnedRows
    /\ tabs = <<>>
    /\ queue = EmptyBag
    /\ worker = [w \in Workers |-> Idle]
    /\ budget = [ticks |-> 0, posts |-> 0, purges |-> 0, requests |-> 0]
    /\ rec = NoRequest
    /\ event = NoEvent

NextCrawl ==
    \/ Tick
    \/ start_plugin_discovery
    \/ \E url \in PluginUrls : PostPlugins(url)
    \/ \E w \in Workers : TakeTask(w)
    \/ \E w \in Workers : DiscoverRequest(w)
    \/ \E w \in Workers : DiscoverCommit(w)

SpecCrawl == InitCrawl /\ [][NextCrawl]_vars

(***************************************************************************)
(* recommendations/voting.py: merging and filtering the votes.             *)
(***************************************************************************)
\* does a row with the type columns (start, end) pass the filter of a type
\* split into (start, end): a "*" on either side matches anything
TypeMatches(col_start, col_end, split_type) ==
    /\ split_type[1] = "*" \/ col_start = split_type[1] \/ col_start = "*"
    /\ split_type[2] = "*" \/ col_end = split_type[2] \/ col_end = "*"

\* db/filters.py: the content types that add a filter expression (a type
\* that is all wildcards adds none)
filter_content_type_to_data_by_content_type(content_type) ==
    {split_mimetype(c) : c \in content_type} \ {<<"*", "*">>}

\* db/filters.py: does the DataToRAMP row pass the filter of a data type and
\* a list of content types (an empty data type or list filters nothing)
filter_data_to_ramp_by_data_types(row, data_type, content_type) ==
    /\ data_type # <<>> =>
         TypeMatches(row.data_type_start, row.data_type_end, split_mimetype(data_type))
    /\ LET content_type_filters == filter_content_type_to_data_by_content_type(content_type)
       IN  content_type_filters # {} =>
             \E c \in {x \in owned.content_types : x.data_id = row.id},
                f \in content_type_filters :
                 TypeMatches(c.content_type_start, c.content_type_end, f)

\* the required consumed DataToRAMP rows of a plugin
RequiredConsumed(r) ==
    {d \in owned.data : d.ramp_id = r.id /\ d.required /\ d.relation = "consumed"}

\* ids of the plugins with a required consumed data row that no entry of
\* available_data fulfills; available_data is a set of
\* [data_type, content_types] entries
get_plugin_ids_with_unmet_requirements(context, rows) ==
    IF context.available_data = {} THEN {}
    ELSE {r.id : r \in {x \in rows :
              \E d \in RequiredConsumed(x) :
                  ~\E a \in context.available_data :
                      filter_data_to_ramp_by_data_types(d, a.data_type, a.content_types)}}

\* a vote of the merged list is <<plugin_id, score>>
filter_votes_AnyType(context, votes, rows) ==
    LET ids_to_exclude == get_plugin_ids_with_unmet_requirements(context, rows)
        keep(vote) == vote[1] \notin ids_to_exclude
    IN  SelectSeq(votes, keep)
filter_votes(context, votes, rows) ==
    LET ids_to_exclude ==
            get_plugin_ids_with_unmet_requirements(context, rows)
            \cup {r.id : r \in {x \in rows :
                      x.plugin_type # "processing" /\ x.plugin_type # "conversion"}}
        keep(vote) == vote[1] \notin ids_to_exclude
    IN  SelectSeq(votes, keep)

\* results is a sequence of <<recommender, votes>>, votes a sequence of
\* <<vote, plugin_id>>: the votes in the order of the results
RECURSIVE flatten_results(_)
flatten_results(results) ==
    IF results = <<>> THEN <<>>
    ELSE [i \in DOMAIN Head(results)[2] |->
             [recommender |-> Head(results)[1],
              plugin_id |-> Head(results)[2][i][2],
              vote |-> Head(results)[2][i][1]]]
         \o flatten_results(Tail(results))

\* multipliers.get(recommender, 1); multipliers is a sequence of <<name, weight>>
Multiplier_Ignored(multipliers, recommender) == 1
Multiplier(multipliers, recommender) ==
    IF \E i \in DOMAIN multipliers : multipliers[i][1] = recommender
    THEN multipliers[CHOOSE i \in DOMAIN multipliers : multipliers[i][1] = recommender][2]
    ELSE 1

\* the dict plugins after the votes: <<plugin_id, score>> in insertion order
RECURSIVE SumVotes(_, _, _)
SumVotes(plugins, flat, multipliers) ==
    IF flat = <<>> THEN plugins
    ELSE LET v == Head(flat)
             add == v.vote * Multiplier(multipliers, v.recommender)
             known == \E i \in DOMAIN plugins : plugins[i][1] = v.plugin_id
         IN  SumVotes(IF known
                      THEN [i \in DOMAIN plugins |->
                               IF plugins[i][1] = v.plugin_id
                               THEN <<plugins[i][1], plugins[i][2] + add>>
                               ELSE plugins[i]]
                      ELSE Append(plugins, <<v.plugin_id, add>>),
                      Tail(flat), multipliers)

\* sorted(..., key=score, reverse=True): stable, so equal scores keep their
\* order
RECURSIVE SortedByScore(_)
SortedByScore(items) ==
    IF items = <<>> THEN <<>>
    ELSE LET last == items[Len(items)]
             front == SortedByScore(SubSeq(items, 1, Len(items) - 1))
             before == SelectSeq(front, LAMBDA x : x[2] >= last[2])
             after == SelectSeq(front, LAMBDA x : x[2] < last[2])
         IN  before \o <<last>> \o after

merge_results(results, multipliers) ==
    SortedByScore(SumVotes(<<>>, flatten_results(results), multipliers))

(***************************************************************************)
(* recommendations/voting.py: get_recommendations and the voter tasks.     *)
(***************************************************************************)
\* one mimetype pair of a context: (data_type, content_type)
DataItem(data_type, content_type) ==
    [data_type |-> data_type, content_type |-> content_type]

NoContext ==
    [current_plugin |-> 0, current_data |-> <<>>, step_input_data |-> <<>>,
     step_output_data |-> <<>>, available_data |-> {}, current_step |-> 0,
     step_success |-> FALSE, step_error |-> FALSE, step_data_quality |-> "UNKNOWN"]

\* the contexts of the requests made (0 is None for an id)
Contexts ==
    LET item == DataItem(<<"entity", "list">>, <<"application", "json">>)
        json_lists == [data_type |-> <<"entity", "list">>,
                       content_types |-> {<<"application", "json">>}]
    IN  {NoContext,
         [NoContext EXCEPT !.current_data = <<item>>],
         [NoContext EXCEPT !.available_data = {json_lists},
                           !.current_plugin = 1, !.step_success = TRUE],
         [NoContext EXCEPT !.available_data = {json_lists},
                           !.current_data = <<item>>,
                           !.current_plugin = 1, !.current_step = 1,
                           !.step_success = TRUE, !.step_data_quality = "GOOD",
                           !.step_input_data = <<item>>,
                           !.step_output_data = <<item>>]}

\* get_votes of the recommenders: the names of the task signatures each one
\* returns for a context (<<>> for None), in the order the recommenders
\* are registered
CurrentDataRecommender(context) ==
    IF context.current_data = <<>> THEN <<>> ELSE <<"CurrentDataRecommender">>

AvailableDataRecommender(context) ==
    IF context.available_data = {} THEN <<>>
    ELSE IF context.current_data # <<>> THEN <<>>
    ELSE IF context.step_output_data # <<>> THEN <<>>
    ELSE <<"AvailableDataRecommender">>

StepDataRecommender(context) ==
    IF context.current_step = 0 THEN <<>>
    ELSE (IF context.step_input_data # <<>> THEN <<"StepDataRecommender">> ELSE <<>>)
         \o (IF /\ context.step_success /\ ~context.step_error
                /\ context.step_data_quality \in {"UNKNOWN", "BAD", "NEUTRAL", "GOOD"}
                /\ context.step_output_data # <<>>
             THEN <<"StepDataRecommender">> ELSE <<>>)

RuleBasedRecommender(context) ==
    IF ~context.step_success \/ context.current_plugin = 0 THEN <<>>
    ELSE <<"RuleBasedRecommender">>

\* the tasks of the group: (name, AsyncResult) with the state and the result
\* the result backend holds for the task
VoterTasks(context) ==
    LET names == CurrentDataRecommender(context) \o AvailableDataRecommender(context)
                 \o StepDataRecommender(context) \o RuleBasedRecommender(context)
    IN  [i \in DOMAIN names |-> [name |-> names[i], state |-> "PENDING", result |-> <<>>]]

\* what a voter task can return: a list of (vote, plugin id) over the ids of
\* the catalog
VoteLists == {<<>>, <<<<1, 1>>>>, <<<<1, 2>>>>, <<<<1, 3>>, <<2, 1>>>>}

\* the tasks of the request in one of the states
InState(state) == {i \in DOMAIN rec.tasks : rec.tasks[i].state = state}

\* the start of get_recommendations: the tasks of the recommenders are
\* grouped and sent with apply_async
get_recommendations(context) ==
    /\ rec.pc \in {"idle", "done", "failed"}
    /\ budget.requests < MaxRequests
    /\ budget' = [budget EXCEPT !.requests = @ + 1]
    /\ rec' = [pc |-> "join", context |-> context, tasks |-> VoterTasks(context),
               joined |-> {}, expired |-> FALSE,
               running_at_deadline |-> {}, done_before_deadline |-> {},
               votes |-> <<>>, result |-> <<>>, error |-> "none"]
    /\ event' = NoEvent
    /\ UNCHANGED <<clock, config, seedTable, ramps, nextRampId, tagTable, owned, tabs,
                   queue, worker>>

\* a worker runs a voter task to its end: it returns its votes or raises
VoterRun(i) ==
    /\ rec.pc \in {"join", "gather", "failed"}
    /\ i \in InState("PENDING")
    /\ \/ \E votes \in VoteLists :
             rec' = [rec EXCEPT !.tasks[i].state = "SUCCESS", !.tasks[i].result = votes]
       \/ rec' = [rec EXCEPT !.tasks[i].state = "FAILURE"]
    /\ event' = NoEvent
    /\ UNCHANGED <<clock, config, seedTable, ramps, nextRampId, tagTable, owned, tabs,
                   queue, worker, budget>>

\* timeout seconds have passed since group_result.get was called; the ghost
\* fields keep the tasks that were running and those that had succeeded
DeadlineExpires ==
    /\ rec.pc \in {"join", "failed"}
    /\ ~rec.expired
    /\ rec' = [rec EXCEPT !.expired = TRUE,
                          !.running_at_deadline = InState("PENDING"),
                          !.done_before_deadline = InState("SUCCESS")]
    /\ event' = NoEvent
    /\ UNCHANGED <<clock, config, seedTable, ramps, nextRampId, tagTable, owned, tabs,
                   queue, worker, budget>>

\* the children group_result.get can look at next: join waits for them in
\* the order of the group, join_native (redis) takes them as they finish
NextChildren ==
    LET open == DOMAIN rec.tasks \ rec.joined
    IN  IF config.RESULT_BACKEND = "redis" THEN open
        ELSE {i \in open : \A j \in open : i <= j}

\* join returns when the last child of the group was joined
AllJoined_Any == rec.joined # {}
AllJoined == rec.joined = DOMAIN rec.tasks

\* group_result.get(timeout=timeout) inside "try ... except TimeoutError":
\* get propagates the exception of a failed child (propagate=True), raises
\* TimeoutError at the deadline and returns when every child was joined
GroupGet ==
    /\ rec.pc = "join"
    /\ \/ /\ rec.expired
          /\ rec' = [rec EXCEPT !.pc = "gather"]
       \/ /\ ~rec.expired
          /\ AllJoined
          /\ rec' = [rec EXCEPT !.pc = "gather"]
       \/ /\ ~rec.expired
          /\ \E i \in NextChildren :
                \/ /\ rec.tasks[i].state = "SUCCESS"
                   /\ rec' = [rec EXCEPT !.joined = @ \cup {i}]
                \/ /\ rec.tasks[i].state = "FAILURE"
                   /\ rec' = [rec EXCEPT !.pc = "failed",
                                         !.error = rec.tasks[i].name]
    /\ event' = NoEvent
    /\ UNCHANGED <<clock, config, seedTable, ramps, nextRampId, tagTable, owned, tabs,
                   queue, worker, budget>>

\* votes = [(n, r.result) for n, r in results if r.successful()]
SuccessfulVotes ==
    LET ok == SelectSeq([i \in DOMAIN rec.tasks |-> i],
                        LAMBDA i : rec.tasks[i].state = "SUCCESS")
    IN  [k \in DOMAIN ok |-> <<rec.tasks[ok[k]].name, rec.tasks[ok[k]].result>>]

\* the end of get_recommendations: the finished results are gathered, merged
\* and filtered
GatherResults ==
    /\ rec.pc = "gather"
    /\ rec' = [rec EXCEPT
                 !.pc = "done",
                 !.votes = SuccessfulVotes,
                 !.result = filter_votes(rec.context,
                                         merge_results(SuccessfulVotes,
                                                       config.PLUGIN_RECOMMENDER_WEIGHTS),
                                         ramps)]
    /\ event' = NoEvent
    /\ UNCHANGED <<clock, config, seedTable, ramps, nextRampId, tagTable, owned, tabs,
                   queue, worker, budget>>

\* a registry with a discovered catalog that serves recommendation requests
InitRec ==
    /\ clock = 0
    /\ config \in [URL_MAP_TO_LOCALHOST : {<<>>},
                   URL_MAP_FROM_LOCALHOST : {<<>>},
                   PLUGIN_PURGE_AFTER : {[kind |-> "never"]},
                   PLUGIN_BATCH_SIZE : {2},
                   PLUGIN_RECOMMENDER_WEIGHTS : {<<>>, <<<<"RuleBasedRecommender", 2>>>>},
                   RESULT_BACKEND : {"database", "redis"}]
    /\ seedTable = CatalogUrls
    /\ ramps = {NewRamp(i, PluginResource(CatalogUrls[i]), CatalogUrls[i], NoUrl, 0,
                        CatalogUrls[i]) : i \in DOMAIN CatalogUrls}
    /\ nextRampId = Len(CatalogUrls) + 1
    /\ tagTable = UNION {TagsOf(PluginResource(r.url)) : r \in ramps}
    /\ owned = OwnedBy(ramps)
    /\ tabs = <<>>
    /\ queue = EmptyBag
    /\ worker = [w \in Workers |-> Idle]
    /\ budget = [ticks |-> 0, posts |-> 0, purges |-> 0, requests |-> 0]
    /\ rec = NoRequest
    /\ event = NoEvent

NextRec ==
    \/ \E context \in Contexts : get_recommendations(context)
    \/ \E i \in 1..4 : VoterRun(i)
    \/ DeadlineExpires
    \/ GroupGet
    \/ GatherResults

SpecRec == InitRec /\ [][NextRec]_vars

\* the request has ended: with a response or with an exception
Ended == rec.pc \in {"done", "failed"}

\* C9 as claimed: when one voter task raised and the other voter tasks
\* succeeded, the request ends without an error and its result is merged and
\* filtered from the votes of the tasks that succeeded.
C9_VoterFailureIsolated ==
    (/\ Ended
     /\ Cardinality(InState("FAILURE")) = 1
     /\ Cardinality(InState("SUCCESS")) = Len(rec.tasks) - 1
     /\ InState("SUCCESS") # {})
    => /\ rec.pc = "done"
       /\ rec.votes = SuccessfulVotes
       /\ rec.result = filter_votes(rec.context,
                                    merge_results(SuccessfulVotes,
                                                  config.PLUGIN_RECOMMENDER_WEIGHTS),
                                    ramps)

\* C10 as claimed: when a voter task was still running at the deadline, the
\* request ends with a result, and the votes gathered for it include the votes
\* of every task that had succeeded before the deadline.
C10_DeadlinePartialResults ==
    (Ended /\ rec.expired /\ rec.running_at_deadline # {})
    => /\ rec.pc = "done"
       /\ \A i \in rec.done_before_deadline :
              \E k \in DOMAIN rec.votes :
                  rec.votes[k] = <<rec.tasks[i].name, rec.tasks[i].result>>

(***************************************************************************)
(* recommendations/context.py and tasks/recommendations_context.py: the    *)
(* context of a request is enriched from the experiment backend.  A        *)
(* context here is a dict: a function from the keys it has to their values.*)
(***************************************************************************)
EmptyDict == [k \in {} |-> 0]

\* dict.update: the keys of other are set in target
update(target, other) == other @@ target

BACKEND_DATA_REF_KEYS == {"type", "contentType"}

\* the data items of the data references that carry type information
backend_data_ref_to_data_item(data_refs) ==
    LET typed(data_ref) == ~(/\ DOMAIN data_ref \subseteq BACKEND_DATA_REF_KEYS
                             /\ DOMAIN data_ref # BACKEND_DATA_REF_KEYS)
        kept == SelectSeq(data_refs, typed)
    IN  [i \in DOMAIN kept |-> DataItem(kept[i].type, kept[i].contentType)]

\* what the backend can answer for the data summary of an experiment
DataSummaries ==
    {{[data_type |-> <<"entity", "list">>, content_types |-> {<<"application", "json">>}]},
     {[data_type |-> <<"entity">>, content_types |-> {<<"text", "csv">>}]}}

\* what the backend can answer for a step of the timeline
StepDatas ==
    LET typed == [type |-> <<"entity", "list">>, contentType |-> <<"application", "json">>]
        untyped == [type |-> <<"entity", "list">>]
    IN  {[processorName |-> "processing", processorVersion |-> "1", status |-> "PENDING",
          resultQuality |-> "UNKNOWN", inputData |-> <<>>, outputData |-> <<>>],
         [processorName |-> "processing", processorVersion |-> "1", status |-> "FAILURE",
          resultQuality |-> "UNKNOWN", inputData |-> <<typed>>, outputData |-> <<>>],
         [processorName |-> "visualization", processorVersion |-> "1", status |-> "SUCCESS",
          resultQuality |-> "GOOD", inputData |-> <<untyped>>, outputData |-> <<typed>>]}

\* the context fetch_step_details returns for the answer of the backend
fetch_step_details(step_data, rows) ==
    LET ramp_ids == {r.id : r \in {x \in rows :
                        /\ x.plugin_type = step_data.processorName
                        /\ x.version = step_data.processorVersion}}
        plugin == IF ramp_ids = {} THEN EmptyDict
                  ELSE "current_plugin" :> (CHOOSE id \in ramp_ids : TRUE)
        input_data == backend_data_ref_to_data_item(step_data.inputData)
        output_data == backend_data_ref_to_data_item(step_data.outputData)
        inputs == IF input_data = <<>> THEN EmptyDict ELSE "step_input_data" :> input_data
        outputs == IF output_data = <<>> THEN EmptyDict ELSE "step_output_data" :> output_data
    IN  IF step_data.status \in {"PENDING", "UNKNOWN"} THEN EmptyDict
        ELSE IF step_data.status = "FAILURE"
        THEN [step_success |-> FALSE, step_error |-> TRUE] @@ plugin @@ inputs
        ELSE [step_success |-> TRUE, step_error |-> FALSE,
              step_data_quality |-> step_data.resultQuality]
             @@ plugin @@ inputs @@ outputs

\* the contexts the GET handler builds from its query arguments
CallerContexts ==
    LET item == DataItem(<<"entity", "list">>, <<"application", "json">>)
        opt(key, present, value) == IF present THEN key :> value ELSE EmptyDict
    IN  {opt("current_data", b[1], <<item>>) @@ opt("experiment", b[2], 1)
         @@ opt("current_step", b[3], 1) @@ opt("current_plugin", b[4], 3)
            : b \in [1..4 -> BOOLEAN]}

\* the tasks gather_context groups for a context
ContextTasks(context) ==
    LET names == IF "experiment" \in DOMAIN context
                 THEN <<"fetch_available_data">>
                      \o (IF "current_step" \in DOMAIN context
                          THEN <<"fetch_step_details">> ELSE <<>>)
                 ELSE <<>>
    IN  [i \in DOMAIN names |-> [name |-> names[i], state |-> "PENDING",
                                 result |-> EmptyDict]]

\* the start of gather_context: without tasks the context is returned as it
\* is, else the tasks are grouped and sent
gather_context(context) ==
    /\ rec.pc \in {"idle", "done", "failed"}
    /\ budget.requests < MaxRequests
    /\ budget' = [budget EXCEPT !.requests = @ + 1]
    /\ rec' = [pc |-> IF ContextTasks(context) = <<>> THEN "done" ELSE "join",
               context |-> context, original_context |-> context,
               tasks |-> ContextTasks(context),
               joined |-> {}, expired |-> FALSE,
               running_at_deadline |-> {}, done_before_deadline |-> {},
               error |-> "none"]
    /\ event' = NoEvent
    /\ UNCHANGED <<clock, config, seedTable, ramps, nextRampId, tagTable, owned, tabs,
                   queue, worker>>

\* a worker runs a fetch task to its end: it returns a context (an empty one
\* when the backend is not configured or the request failed) or raises
FetchRun(i) ==
    /\ rec.pc \in {"join", "gather", "failed"}
    /\ i \in InState("PENDING")
    /\ \/ /\ rec.tasks[i].name = "fetch_available_data"
          /\ \E result \in {EmptyDict} \cup {"available_data" :> d : d \in DataSummaries} :
                rec' = [rec EXCEPT !.tasks[i].state = "SUCCESS",
                                   !.tasks[i].result = result]
       \/ /\ rec.tasks[i].name = "fetch_step_details"
          /\ \E result \in {EmptyDict}
                           \cup {fetch_step_details(d, ramps) : d \in StepDatas} :
                rec' = [rec EXCEPT !.tasks[i].state = "SUCCESS",
                                   !.tasks[i].result = result]
       \/ rec' = [rec EXCEPT !.tasks[i].state = "FAILURE"]
    /\ event' = NoEvent
    /\ UNCHANGED <<clock, config, seedTable, ramps, nextRampId, tagTable, owned, tabs,
                   queue, worker, budget>>

\* "for result in children: if result.successful(): context.update(...)"
RECURSIVE UpdateFromChildren(_, _)
UpdateFromChildren(context, children) ==
    IF children = <<>> THEN context
    ELSE UpdateFromChildren(IF Head(children).state = "SUCCESS"
                            THEN update(context, Head(children).result)
                            ELSE context,
                            Tail(children))

\* the context after the results of the children and then the original
\* context were written into it
merged_context_FetchedWins(context, children) ==
    UpdateFromChildren(context, children)
merged_context(context, children) ==
    update(UpdateFromChildren(context, children), context)

\* the end of gather_context
MergeContext ==
    /\ rec.pc = "gather"
    /\ rec' = [rec EXCEPT !.pc = "done",
                          !.context = merged_context(rec.context, rec.tasks)]
    /\ event' = NoEvent
    /\ UNCHANGED <<clock, config, seedTable, ramps, nextRampId, tagTable, owned, tabs,
                   queue, worker, budget>>

InitContext == InitRec

NextContext ==
    \/ \E context \in CallerContexts : gather_context(context)
    \/ \E i \in 1..2 : FetchRun(i)
    \/ DeadlineExpires
    \/ GroupGet
    \/ MergeContext

SpecContext == InitContext /\ [][NextContext]_vars

\* C14: when gather_context has ended, every field the caller supplied has
\* the caller's value, also when a fetch that succeeded returned another
\* value for it, and every other field of the context is the value a fetch
\* task returned that was successful when the results were gathered: a task
\* that raised or was still running adds nothing.
C14_CallerFieldsWin ==
    Ended
    => /\ \A k \in DOMAIN rec.original_context :
              k \in DOMAIN rec.context /\ rec.context[k] = rec.original_context[k]
       /\ \A k \in DOMAIN rec.context \ DOMAIN rec.original_context :
              \E i \in InState("SUCCESS") :
                  /\ k \in DOMAIN rec.tasks[i].result
                  /\ rec.tasks[i].result[k] = rec.context[k]

\* the caller supplied current_plugin, fetch_step_details returned another
\* plugin for it together with fields the caller had not supplied, and the
\* other fetch did not succeed
C14_Witness ==
    /\ rec.pc = "done"
    /\ "current_plugin" \in DOMAIN rec.original_context
    /\ \E i \in InState("SUCCESS") :
           /\ "current_plugin" \in DOMAIN rec.tasks[i].result
           /\ rec.tasks[i].result["current_plugin"] # rec.original_context["current_plugin"]
    /\ "step_success" \in DOMAIN rec.context
    /\ InState("SUCCESS") # DOMAIN rec.tasks

\* the plugin rows the result of the request names
Recommended == {r \in ramps : \E k \in DOMAIN rec.result : rec.result[k][1] = r.id}

\* C11 as claimed: no plugin of a result has a required consumed data row
\* that no entry of the context's available_data satisfies, for every
\* context, an empty available_data included.
C11_NoUnmetRequirement ==
    rec.pc = "done"
    => \A r \in Recommended : \A d \in RequiredConsumed(r) :
           \E a \in rec.context.available_data :
               filter_data_to_ramp_by_data_types(d, a.data_type, a.content_types)

\* C12: no plugin of a result has a type other than processing or
\* conversion, whatever the voter tasks returned.
C12_OnlyDataPlugins ==
    rec.pc = "done"
    => \A r \in Recommended : r.plugin_type \in {"processing", "conversion"}

\* a voter voted for the visualization plugin and for another plugin: the
\* result has the other plugin only
C12_Witness ==
    /\ rec.pc = "done"
    /\ \E k \in DOMAIN rec.votes : \E j \in DOMAIN rec.votes[k][2] :
           \E r \in ramps : r.id = rec.votes[k][2][j][2] /\ r.plugin_type = "visualization"
    /\ rec.result # <<>>

\* the sum, over the votes of a flattened list that were cast for a plugin,
\* of vote times the weight the configuration has for the voter
RECURSIVE WeightedSum(_, _)
WeightedSum(flat, plugin_id) ==
    IF flat = <<>> THEN 0
    ELSE LET weights == config.PLUGIN_RECOMMENDER_WEIGHTS
             hits == {i \in DOMAIN weights : weights[i][1] = Head(flat).recommender}
             weight == IF hits = {} THEN 1 ELSE weights[CHOOSE i \in hits : TRUE][2]
         IN  (IF Head(flat).plugin_id = plugin_id THEN Head(flat).vote * weight ELSE 0)
             + WeightedSum(Tail(flat), plugin_id)

\* C13: the merged list of a request, before it is filtered, has one entry
\* per plugin that got a vote, the score of the entry is the sum over the
\* gathered votes for the plugin of vote times the configured weight of the
\* voter (1 when none is configured), and the list is in descending order of
\* score.
C13_WeightedScores ==
    rec.pc = "done"
    => LET weights == config.PLUGIN_RECOMMENDER_WEIGHTS
           flat == flatten_results(rec.votes)
           merged == merge_results(rec.votes, weights)
       IN  /\ {merged[k][1] : k \in DOMAIN merged} = {flat[j].plugin_id : j \in DOMAIN flat}
           /\ \A k, l \in DOMAIN merged : merged[k][1] = merged[l][1] => k = l
           /\ \A k \in DOMAIN merged :
                  merged[k][2] = WeightedSum(flat, merged[k][1])
           /\ \A k, l \in DOMAIN merged : k < l => merged[k][2] >= merged[l][2]

\* two voters, one of them with a configured weight of 2, voted for the same
\* plugin, and the merged list has plugins of different scores
C13_Witness ==
    /\ rec.pc = "done"
    /\ config.PLUGIN_RECOMMENDER_WEIGHTS # <<>>
    /\ \E k, l \in DOMAIN rec.votes :
           /\ k # l
           /\ rec.votes[k][1] = "RuleBasedRecommender"
           /\ rec.votes[k][2] # <<>> /\ rec.votes[l][2] # <<>>
           /\ \E i \in DOMAIN rec.votes[k][2], j \in DOMAIN rec.votes[l][2] :
                  rec.votes[k][2][i][2] = rec.votes[l][2][j][2]
    /\ LET merged == merge_results(rec.votes, config.PLUGIN_RECOMMENDER_WEIGHTS)
       IN  \E k, l \in DOMAIN merged : merged[k][2] > merged[l][2]

(***************************************************************************)
(* Properties of the crawler, checked under SpecCrawl.                     *)
(***************************************************************************)
\* a plugin row without its last_available
WithoutLastAvailable(r) == [r EXCEPT !.last_available = 0]

C4_UniquePlugin ==
    \A r1, r2 \in ramps :
        (r1.plugin_id = r2.plugin_id /\ r1.version = r2.version) => r1 = r2

\* two tasks selected the plugin before either inserted it: the second insert
\* was turned down
C4_Witness ==
    /\ event.step = "commit" /\ event.resp = "insert"
    /\ event.raised = "IntegrityError"
    /\ FoundPlugin(PluginResource(event.item.seed)) # {}

\* C5 as claimed: after a connection error or a 404 on the GET of the task's
\* url, with delete_on_missing no plugin ingested from that url is left in the
\* catalog, and without delete_on_missing the catalog is unchanged.
C5_DeleteOnMissing ==
    [][(event'.step = "request" /\ event'.resp \in {"conn_error", "http_404"})
       => IF event'.item.delete_on_missing
          THEN \A r \in ramps' : r.origin # event'.item.seed
          ELSE ramps' = ramps /\ tabs' = tabs /\ tagTable' = tagTable]_vars

\* every item of a task: in the broker or at a worker
ItemsOf(msg) == IF msg.task = "discover_plugins_from_seeds" THEN Range(msg.items) ELSE {}
AllItems == UNION ({ItemsOf(msg) : msg \in BagToSet(queue)}
                   \cup {ItemsOf(worker[w]) : w \in Workers})

\* C6: a per-seed task called with depth greater than 3 issues no request,
\* changes no table and sends no task, and no task is ever sent with a depth
\* beyond 4, however the runners list each other.
C6_NestingGuard ==
    /\ [](\A it \in AllItems : it.nesting <= 4)
    /\ [][(event'.step = "request" /\ event'.item.nesting > 3)
          => /\ event'.resp = "none"
             /\ ramps' = ramps /\ tabs' = tabs /\ tagTable' = tagTable
             /\ queue' = queue]_vars

\* a runner that lists itself was followed down to depth 4, where the task
\* aborted
C6_Witness ==
    /\ event.step = "request" /\ event.item.nesting = 4
    /\ event.item.seed = RunnerUrl /\ event.resp = "none"

\* C17 as claimed: the task of an apiRoot a runner listed, when the apiRoot
\* answers a valid plugin resource, ingests the plugin (its first part does
\* not raise, and after its second part the plugin is in the catalog), the
\* row it inserts references the seed of the tick the listing descends from,
\* and that seed is the root seed of every task below a runner.
C17_RunnerPluginsReferenceSeed ==
    /\ [](\A it \in AllItems : it.nesting >= 1 => it.root_seed \in Range(seedTable))
    /\ [][(event'.item.nesting >= 1 /\ event'.resp = "plugin")
          => event'.raised = "none"]_vars
    /\ [][(event'.item.nesting >= 1 /\ event'.step = "commit")
          => /\ \E r \in ramps' :
                  /\ r.plugin_id = PluginResource(event'.item.seed).name
                  /\ r.version = PluginResource(event'.item.seed).version
             /\ (event'.resp = "insert" /\ event'.raised = "none")
                  => \E r \in ramps' \ ramps : r.seed = event'.item.root_seed]_vars

\* C7 as claimed: no seed read by a tick is left uncrawled because the crawl
\* of another seed of the tick failed.
C7_SeedsIndependent ==
    \A it \in event.dropped : ~(it.nesting = 0 /\ it.root_seed = NoUrl)

\* C8 as claimed: no network or HTTP error on a request of the per-seed task
\* makes the task fail.
C8_NetworkErrorsCaught ==
    event.raised \notin {"ConnectionError", "HTTPError", "RequestException"}


(***************************************************************************)
(* The purge task on catalogs whose plugins were last seen at any times.   *)
(***************************************************************************)
PurgeAfterValues == {[kind |-> "never"], [kind |-> "auto"],
                     [kind |-> "seconds", value |-> -2],
                     [kind |-> "seconds", value |-> 0],
                     [kind |-> "seconds", value |-> 1]}

\* a catalog that discovery left behind: each plugin url was ingested or not,
\* and was last available at some time
Catalogs ==
    LET urls == CatalogUrls
        row(i, t) == NewRamp(i, PluginResource(urls[i]), urls[i], NoUrl, t, urls[i])
    IN  {{row(i, la[i]) : i \in present} :
            present \in SUBSET DOMAIN urls, la \in [DOMAIN urls -> 0..MaxTime]}

InitPurge ==
    /\ clock \in 0..MaxTime
    /\ config \in [URL_MAP_TO_LOCALHOST : {<<>>},
                   URL_MAP_FROM_LOCALHOST : {<<>>},
                   PLUGIN_PURGE_AFTER : PurgeAfterValues,
                   PLUGIN_BATCH_SIZE : {2},
                   PLUGIN_RECOMMENDER_WEIGHTS : {<<>>},
                   RESULT_BACKEND : {"database"}]
    /\ seedTable = CatalogUrls
    /\ ramps \in Catalogs
    /\ \A r \in ramps : r.last_available <= clock
    /\ nextRampId = Len(CatalogUrls) + 1
    /\ tagTable = UNION {TagsOf(PluginResource(r.url)) : r \in ramps}
    /\ owned = OwnedBy(ramps)
    /\ tabs = <<[filter_string |-> json_dumps([tag |-> "t1"]),
                 plugins |-> SortedSeq(get_plugins_from_filter([tag |-> "t1"], ramps))]>>
    /\ queue = EmptyBag
    /\ worker = [w \in Workers |-> Idle]
    /\ budget = [ticks |-> 0, posts |-> 0, purges |-> 0, requests |-> 0]
    /\ rec = NoRequest
    /\ event = NoEvent

NextPurge ==
    \/ Tick
    \/ purge_plugins

SpecPurge == InitPurge /\ [][NextPurge]_vars

\* C2: with a numeric purge_after of T seconds, a purge run keeps exactly the
\* plugins that were last available at or after the latest last_available of
\* the table minus T, and deletes the ones last available strictly earlier.
C2_PurgeBoundary ==
    [][(event'.step = "purge" /\ config.PLUGIN_PURGE_AFTER.kind = "seconds")
       => LET T == config.PLUGIN_PURGE_AFTER.value IN
          /\ ramps' \subseteq ramps
          /\ \A r \in ramps :
               r \in ramps' <=>
                 \E m \in ramps : /\ \A x \in ramps : x.last_available <= m.last_available
                                  /\ r.last_available >= m.last_available - T]_vars

\* a purge with T = 1 deleted a plugin (its tag is left without a plugin) and
\* kept one that was last available exactly T before the latest
C2_Witness ==
    /\ event.step = "purge"
    /\ config.PLUGIN_PURGE_AFTER = [kind |-> "seconds", value |-> 1]
    /\ "t2" \in tagTable /\ \A r \in ramps : "t2" \notin r.tags
    /\ \E r, m \in ramps : r.last_available = m.last_available - 1


(***************************************************************************)
(* The tab materializer: tabs are created and updated through the API      *)
(* while a discovery tick ingests the plugins of the seeds.                *)
(***************************************************************************)
InitTabs ==
    /\ clock = 0
    /\ config = [URL_MAP_TO_LOCALHOST |-> <<>>,
                 URL_MAP_FROM_LOCALHOST |-> <<>>,
                 PLUGIN_PURGE_AFTER |-> [kind |-> "never"],
                 PLUGIN_BATCH_SIZE |-> 2,
                 PLUGIN_RECOMMENDER_WEIGHTS |-> <<>>,
                 RESULT_BACKEND |-> "database"]
    /\ seedTable = SubSeq(CatalogUrls, 1, 2)
    /\ ramps = {}
    /\ nextRampId = 1
    /\ tagTable = {}
    /\ owned = NoOwnedRows
    /\ tabs = <<>>
    /\ queue = EmptyBag
    /\ worker = [w \in Workers |-> Idle]
    /\ budget = [ticks |-> 0, posts |-> 0, purges |-> 0, requests |-> 0]
    /\ rec = NoRequest
    /\ event = NoEvent

NextTabs ==
    \/ start_plugin_discovery
    \/ \E f \in FilterStrings : PostTab(f)
    \/ \E t \in 1..MaxTabs, f \in FilterStrings : PutTab(t, f)
    \/ \E w \in Workers : TakeTask(w)
    \/ \E w \in Workers : DiscoverRequest(w)
    \/ \E w \in Workers : DiscoverCommit(w)
    \/ \E w \in Workers : EvalCount(w)
    \/ \E w \in Workers : EvalBatch(w)
    \/ \E w \in Workers : WriteTab(w)

SpecTabs == InitTabs /\ [][NextTabs]_vars

\* no task is waiting or running
Quiescent == queue = EmptyBag /\ \A w \in Workers : worker[w] = Idle

\* the plugins of the catalog that match the filter of a tab
Matching(t) == get_plugins_from_filter(json_loads(tabs[t].filter_string), ramps)

\* C1 as claimed: once every materializer task has finished, the membership
\* of every tab is the set of the catalog plugins that match its filter
\* (stated for catalogs whose tabs all carry a JSON filter).
C1_TabsInSync ==
    (Quiescent /\ \A t \in DOMAIN tabs : ~json_loads_raises(tabs[t].filter_string))
    => \A t \in DOMAIN tabs : Range(tabs[t].plugins) = Matching(t)

\* C16: no step of SpecPurge changes the last_available of a plugin; there
\* a purge run that follows an earlier purge run, however much later,
\* deletes nothing.
C16_SecondPurgeDeletesNothing ==
    [][(budget.purges >= 1 /\ event'.step = "purge")
       => ramps' = ramps]_vars

\* the second purge ran after the first one had deleted a plugin and after
\* time had passed, so that a plugin it kept was last available more than
\* purge_after before the current time
C16_Witness ==
    /\ event.step = "purge"
    /\ budget.purges = 2
    /\ config.PLUGIN_PURGE_AFTER = [kind |-> "seconds", value |-> 0]
    /\ "t2" \in tagTable /\ \A r \in ramps : "t2" \notin r.tags
    /\ \E r \in ramps : r.last_available < clock

(***************************************************************************)
(* Deleting plugins, checked under SpecPurge.                              *)
(***************************************************************************)
\* the ids of the plugin rows a step deleted
DeletedIds == {r.id : r \in ramps} \ {r.id : r \in ramps'}

\* C15: a step that deletes plugin rows deletes the DataToRamp rows of the
\* plugins, the ContentTypeToData rows of those data rows and the
\* DependencyToRAMP rows of the plugins and keeps every other such row, takes
\* the plugins out of the membership of every tab and keeps the rest of the
\* membership, and leaves the table of tags as it is.
C15_DeleteCascades ==
    [][DeletedIds # {}
       => /\ owned'.data = {d \in owned.data : d.ramp_id \notin DeletedIds}
          /\ owned'.content_types =
                {c \in owned.content_types :
                    \A d \in owned.data : d.id = c.data_id => d.ramp_id \notin DeletedIds}
          /\ owned'.dependencies =
                {d \in owned.dependencies : d.ramp_id \notin DeletedIds}
          /\ DOMAIN tabs' = DOMAIN tabs
          /\ \A t \in DOMAIN tabs :
                /\ Range(tabs'[t].plugins) = Range(tabs[t].plugins) \ DeletedIds
                /\ Len(tabs'[t].plugins) = Cardinality(Range(tabs'[t].plugins))
          /\ tagTable' = tagTable]_vars

\* a purge deleted the plugin with the dependency and the plugin with two
\* data inputs, one of them a member of the tab, and kept the third plugin
\* with its rows and its membership: the tags of the deleted plugins are
\* still in the table
C15_Witness ==
    /\ event.step = "purge"
    /\ {"t2", "t3"} \subseteq tagTable
    /\ {r.plugin_id : r \in ramps} = {"a"} /\ {r.version : r \in ramps} = {"1"}
    /\ owned.data # {} /\ owned.content_types # {} /\ owned.dependencies = {}
    /\ tabs[1].plugins = <<1>>

(***************************************************************************)
(* apply_filter_for_tab on a tab with any filter over any catalog.         *)
(***************************************************************************)
\* the catalog may also hold a plugin whose version is no PEP 440 version
FilterCatalogUrls == CatalogUrls \o <<Url("docker", <<"r", "p4">>)>>

FilterCatalogs ==
    LET urls == FilterCatalogUrls
        row(i) == NewRamp(i, PluginResource(urls[i]), urls[i], NoUrl, 0, urls[i])
    IN  {{row(i) : i \in present} : present \in SUBSET DOMAIN urls}

\* specifier sets; an id is the sequence of its parts around "@"
VersionSpecs == {"", "==1.0", "!=1", "<2", ">=1.5", ">=1,<2"}
FilterLeaves == {<<>>, [tag |-> "t1"], [type |-> "processing"], [id |-> <<"a">>],
                 [id |-> <<"a", "1">>]}
                \cup {[version |-> v] : v \in VersionSpecs}
FilterOperands == {<<>>, [tag |-> "t1"], [type |-> "processing"], [version |-> "<2"]}
FilterLists == {<<>>} \cup {<<f>> : f \in FilterOperands}
                \cup {<<f, g>> : f \in FilterOperands, g \in FilterOperands}
FilterExprs ==
    FilterLeaves
      \cup {[and |-> l] : l \in FilterLists} \cup {[or |-> l] : l \in FilterLists}
      \cup {[not |-> f] : f \in FilterLeaves}
      \cup {[not |-> [and |-> <<f, [not |-> [tag |-> "t1"]]>>]] : f \in FilterOperands}

InitFilter ==
    /\ clock = 0
    /\ config = [URL_MAP_TO_LOCALHOST |-> <<>>,
                 URL_MAP_FROM_LOCALHOST |-> <<>>,
                 PLUGIN_PURGE_AFTER |-> [kind |-> "never"],
                 PLUGIN_BATCH_SIZE |-> 2,
                 PLUGIN_RECOMMENDER_WEIGHTS |-> <<>>,
                 RESULT_BACKEND |-> "database"]
    /\ seedTable = FilterCatalogUrls
    /\ ramps \in FilterCatalogs
    /\ nextRampId = Len(FilterCatalogUrls) + 1
    /\ tagTable = UNION {TagsOf(PluginResource(r.url)) : r \in ramps}
    /\ owned = OwnedBy(ramps)
    /\ \E f \in FilterExprs :
         tabs = <<[filter_string |-> json_dumps(f), plugins |-> <<>>]>>
    /\ queue = MsgBag(ApplyMsg(1))
    /\ worker = [w \in Workers |-> Idle]
    /\ budget = [ticks |-> 0, posts |-> 0, purges |-> 0, requests |-> 0]
    /\ rec = NoRequest
    /\ event = NoEvent

NextFilter ==
    \/ \E w \in Workers : TakeTask(w)
    \/ \E w \in Workers : EvalCount(w)
    \/ \E w \in Workers : EvalBatch(w)
    \/ \E w \in Workers : WriteTab(w)

SpecFilter == InitFilter /\ [][NextFilter]_vars

\* tests/plugin_filter/util.py: does the plugin match the filter
RECURSIVE filter_matches_plugin(_, _)
filter_matches_plugin(filter_dict, plugin) ==
    CASE Has(filter_dict, "id") ->
           LET parts == <<plugin.plugin_id>>  \* plugin.plugin_id.split("@")
           IN  \/ filter_dict["id"] = parts
               \/ filter_dict["id"] = SubSeq(parts, 1, Len(parts) - 1)
      [] Has(filter_dict, "tag") -> filter_dict["tag"] \in plugin.tags
      [] Has(filter_dict, "version") ->
           /\ Version(plugin.version) # InvalidVersion
           /\ SpecifierContains(SpecifierSet(filter_dict["version"]),
                                Version(plugin.version))
      [] Has(filter_dict, "type") -> lower(plugin.plugin_type) = lower(filter_dict["type"])
      [] Has(filter_dict, "and") ->
           /\ filter_dict["and"] # <<>>
           /\ \A i \in DOMAIN filter_dict["and"] :
                filter_matches_plugin(filter_dict["and"][i], plugin)
      [] Has(filter_dict, "or") ->
           \E i \in DOMAIN filter_dict["or"] :
                filter_matches_plugin(filter_dict["or"][i], plugin)
      [] Has(filter_dict, "not") -> ~filter_matches_plugin(filter_dict["not"], plugin)
      [] OTHER -> FALSE

\* a step with which a worker ends apply_filter_for_tab
ApplyEnds ==
    \E w \in Workers : worker[w].task = "apply_filter_for_tab" /\ worker'[w] = Idle

TabFilter == json_loads(tabs[1].filter_string)

\* C18 as claimed: when apply_filter_for_tab has run for a tab, the members
\* of the tab are the plugins of the catalog that match the filter
\* expression, evaluated plugin by plugin: all children of an "and", any
\* child of an "or", the negation of the child of a "not", a leaf by its rule.
C18_MembershipIsRecursiveMatch ==
    [][ApplyEnds
       => Range(tabs'[1].plugins)
            = {p.id : p \in {x \in ramps : filter_matches_plugin(TabFilter, x)}}]_vars

\* C19 as claimed: when apply_filter_for_tab has run for a tab whose filter
\* is the empty object, every plugin of the catalog is a member of the tab.
C19_EmptyFilterMatchesAll ==
    [][(ApplyEnds /\ TabFilter = <<>>)
       => Range(tabs'[1].plugins) = {p.id : p \in ramps}]_vars

\* C20 as claimed: when apply_filter_for_tab has run for a tab whose filter
\* is {"version": S}, a plugin of the catalog is a member of the tab if and
\* only if its version is a version that the specifier set S contains.
C20_VersionFilter ==
    [][(ApplyEnds /\ Has(TabFilter, "version"))
       => \A p \in ramps :
            p.id \in Range(tabs'[1].plugins)
              <=> /\ Version(p.version) # InvalidVersion
                  /\ SpecifierContains(SpecifierSet(TabFilter["version"]),
                                       Version(p.version))]_vars

\* evaluate_plugin_filter run to its end over the catalog as it stands: the
\* ids it yields, batch after batch, and the exception it ends with
RECURSIVE evaluate_plugin_filter_from(_, _)
evaluate_plugin_filter_from(plugin_filter, offset) ==
    IF offset >= Cardinality(ramps) THEN {}
    ELSE get_plugins_from_filter(plugin_filter, RampBatch(DEFAULT_BATCH_SIZE, offset))
           \cup evaluate_plugin_filter_from(plugin_filter, offset + DEFAULT_BATCH_SIZE)
evaluate_plugin_filter(plugin_filter) == evaluate_plugin_filter_from(plugin_filter, 0)

RECURSIVE evaluate_plugin_filter_raises_from(_, _)
evaluate_plugin_filter_raises_from(plugin_filter, offset) ==
    IF offset >= Cardinality(ramps) THEN "none"
    ELSE LET raised == get_plugins_from_filter_raises(
                          plugin_filter, RampBatch(DEFAULT_BATCH_SIZE, offset))
         IN  IF raised # "none" THEN raised
             ELSE evaluate_plugin_filter_raises_from(plugin_filter,
                                                     offset + DEFAULT_BATCH_SIZE)
evaluate_plugin_filter_raises(plugin_filter) ==
    evaluate_plugin_filter_raises_from(plugin_filter, 0)

\* the plugins a tab with the filter selects: the membership that
\* apply_filter_for_tab leaves in a new tab
Selected(plugin_filter) ==
    IF evaluate_plugin_filter_raises(plugin_filter) # "none" THEN {}
    ELSE evaluate_plugin_filter(plugin_filter)

\* C21 as claimed: when apply_filter_for_tab has run for a tab whose filter
\* is {"not": F}, a plugin of the catalog is a member of the tab if and only
\* if a tab with the filter F does not select it, whether the catalog fits
\* into one evaluation batch or not.
C21_NotIsComplement ==
    [][(ApplyEnds /\ Has(TabFilter, "not"))
       => \A p \in ramps :
            p.id \in Range(tabs'[1].plugins) <=> p.id \notin Selected(TabFilter["not"])]_vars

(***************************************************************************)
(* POST of a tab with any filter string, and the tasks it sends.           *)
(***************************************************************************)
PostedStrings ==
    FilterStrings
      \cup {NOT_JSON,
            JsonText(JsonObject(<< <<"version", JsonString("<2")>> >>)),
            JsonText(JsonObject(<< <<"version", JsonString("not-a-spec")>> >>)),
            JsonText(JsonObject(<< <<"tag", JsonString("t1")>>,
                                   <<"type", JsonString("processing")>> >>)),
            JsonText(JsonObject(<< <<"and", Tag_t1>> >>)),
            JsonText(JsonObject(<< <<"or", JsonString("t1")>> >>)),
            JsonText(JsonObject(<< <<"and", JsonArray(<<Tag_t1, JsonNumber(5)>>)>> >>)),
            JsonText(JsonObject(<< <<"not", JsonArray(<<>>)>> >>)),
            JsonText(JsonObject(<< <<"tag", JsonNumber(5)>> >>)),
            JsonText(JsonObject(<< <<"label", JsonString("t1")>> >>)),
            JsonText(JsonArray(<<>>)),
            JsonText(JsonArray(<<Tag_t1>>)),
            JsonText(JsonNumber(5))}

InitPost ==
    /\ clock = 0
    /\ config = [URL_MAP_TO_LOCALHOST |-> <<>>,
                 URL_MAP_FROM_LOCALHOST |-> <<>>,
                 PLUGIN_PURGE_AFTER |-> [kind |-> "never"],
                 PLUGIN_BATCH_SIZE |-> 2,
                 PLUGIN_RECOMMENDER_WEIGHTS |-> <<>>,
                 RESULT_BACKEND |-> "database"]
    /\ seedTable = CatalogUrls
    /\ ramps = {NewRamp(i, PluginResource(CatalogUrls[i]), CatalogUrls[i], NoUrl, 0,
                        CatalogUrls[i]) : i \in DOMAIN CatalogUrls}
    /\ nextRampId = Len(CatalogUrls) + 1
    /\ tagTable = UNION {TagsOf(PluginResource(r.url)) : r \in ramps}
    /\ owned = OwnedBy(ramps)
    /\ tabs = <<>>
    /\ queue = EmptyBag
    /\ worker = [w \in Workers |-> Idle]
    /\ budget = [ticks |-> 0, posts |-> 0, purges |-> 0, requests |-> 0]
    /\ rec = NoRequest
    /\ event = NoEvent

NextPost ==
    \/ \E f \in PostedStrings : PostTab(f)
    \/ \E w \in Workers : TakeTask(w)
    \/ \E w \in Workers : EvalCount(w)
    \/ \E w \in Workers : EvalBatch(w)
    \/ \E w \in Workers : WriteTab(w)

SpecPost == InitPost /\ [][NextPost]_vars

\* the grammar of filter expressions: the empty object, or an object with
\* one key: "and" or "or" with a list of expressions, "not" with an
\* expression, "id", "name", "tag" or "type" with a string, "version" with a
\* specifier set
RECURSIVE InGrammar(_)
InGrammar(syntax) ==
    /\ syntax.kind = "object"
    /\ Len(syntax.members) <= 1
    /\ Len(syntax.members) = 1 =>
         LET key == syntax.members[1][1]
             value == syntax.members[1][2]
         IN  CASE key \in {"and", "or"} ->
                    /\ value.kind = "array"
                    /\ \A i \in DOMAIN value.elements : InGrammar(value.elements[i])
               [] key = "not" -> InGrammar(value)
               [] key \in {"id", "name", "tag", "type"} -> value.kind = "string"
               [] key = "version" ->
                    /\ value.kind = "string"
                    /\ SpecifierSet(value.value) # InvalidSpecifier
               [] OTHER -> FALSE

\* a filter string is empty or the text of an expression of the grammar
TextInGrammar(text) ==
    \/ text = EMPTY_STRING
    \/ text # NOT_JSON /\ InGrammar(text.syntax)

\* C22 as claimed: the POST of a tab whose filter string violates the
\* grammar is answered with 400 and leaves the table of tabs as it is.
C22_MalformedFilterRejected ==
    [][\A text \in PostedStrings :
         (PostTab(text) /\ ~TextInGrammar(text))
            => (event'.resp = "400" /\ tabs' = tabs)]_vars

(***************************************************************************)
(* api/plugins/root.py, db/filters.py, db/pagination.py:                   *)
(* GET /api/plugins/?tags=...&type=...&item-count=...&cursor=...           *)
(***************************************************************************)
\* PluginTag.id: the autoincrement in the order the tags were created. The
\* catalog urls were ingested in the order of their row ids, so "t1" came with
\* the first plugin, "t3" with the dependency of the second and "t2" with the
\* third; a purge removes plugin rows and keeps the tags
PluginTagId(tag) == CASE tag = "t1" -> 1 [] tag = "t3" -> 2 [] tag = "t2" -> 3

\* table TagToRAMP: one row for each tag of each plugin
TagToRAMP == {[ramp_id |-> r.id, tag_id |-> PluginTagId(t)] : <<r, t>> \in
                 {<<r, t>> \in ramps \X tagTable : t \in r.tags}}

\* one entry of the comma separated tags parameter, after strip(): the name
\* with the leading "!" taken off, and whether there was one
TagEntry(name, negated) == [name |-> name, negated |-> negated]

\* PluginTag.get_all: the tag rows with one of the names
PluginTag_get_all(names) == {t \in tagTable : t \in names}

get_tag_filter_sets(tag_list) ==
    LET must_have == {t.name : t \in {e \in Range(tag_list) : ~e.negated}}
        forbidden == {t.name : t \in {e \in Range(tag_list) : e.negated}}
        tags_to_load == {t.name : t \in Range(tag_list)}
        found_tags == PluginTag_get_all(tags_to_load)
        must_have_tags == {t \in found_tags : t \in must_have}
    IN  [must_have_tags |-> must_have_tags,
         forbidden_tags |-> {t \in found_tags : t \in forbidden},
         unknown_must_have_tags |-> must_have \ must_have_tags]

\* a filter criterion is modelled by the set of the rows that satisfy it; the
\* criteria of filter_ramps_by_tags in the order they are appended
filter_ramps_by_tags(must_have_tags, forbidden_tags) ==
    LET must_ids == {PluginTagId(t) : t \in must_have_tags}
        forbidden_ids == {PluginTagId(t) : t \in forbidden_tags}
        count(ramp_id) ==
            Cardinality({row \in TagToRAMP : row.ramp_id = ramp_id
                                               /\ row.tag_id \in must_ids})
        \* GROUP BY ramp_id HAVING count(tag_id) == len(must_have_tags)
        having == {row.ramp_id : row \in
                     {row \in TagToRAMP : /\ row.tag_id \in must_ids
                                          /\ count(row.ramp_id) = Cardinality(must_ids)}}
        \* SELECT DISTINCT ramp_id WHERE ramp_id IN (ids of the forbidden tags)
        distinct == {row.ramp_id : row \in
                       {row \in TagToRAMP : row.ramp_id \in forbidden_ids}}
    IN  (IF must_have_tags # {} THEN <<{r \in ramps : r.id \in having}>> ELSE <<>>)
          \o (IF forbidden_tags # {} THEN <<{r \in ramps : r.id \notin distinct}>>
              ELSE <<>>)

\* literal(1) != 1
filter_impossible == <<{}>>

\* the list filter_ of PluginsRootView.get for the tags and type parameters;
\* NoType is the parameter left out
NoType == "none"
PluginsFilter(tag_list, type_) ==
    LET sets == get_tag_filter_sets(tag_list)
        by_tags == filter_ramps_by_tags(sets.must_have_tags, sets.forbidden_tags)
        by_type == IF type_ # NoType THEN <<{r \in ramps : r.plugin_type = type_}>>
                   ELSE <<>>
    IN  IF sets.unknown_must_have_tags # {} THEN filter_impossible
        ELSE by_tags \o by_type

\* the rows of table RAMP that satisfy and_(*filter_criteria)
and_(filter_criteria) ==
    {r \in ramps : \A i \in DOMAIN filter_criteria : r \in filter_criteria[i]}

\* and_() of exactly one clause is that clause and no clause list, and
\* filter(*query_filter) iterates over it: a column expression is no sequence
\* of clauses, the iteration raises
unpack_raises(filter_criteria) == Len(filter_criteria) = 1

\* the order of the column RAMP.plugin_id for the names of the catalog
NameRank(name) == CASE name = "a" -> 1 [] name = "b" -> 2 [] name = "c" -> 3

\* get_version_sorting_string: epoch and zero padded release of a version, the
\* text itself for a LegacyVersion; as the sequence that sorts like the string
get_version_sorting_string(version) ==
    IF Version(version) = InvalidVersion THEN <<9>> ELSE <<0>> \o Version(version)

\* lexicographic order of two such strings
RECURSIVE StringLess(_, _)
StringLess(a, b) ==
    IF b = <<>> THEN FALSE
    ELSE IF a = <<>> THEN TRUE
    ELSE IF Head(a) # Head(b) THEN Head(a) < Head(b)
    ELSE StringLess(Tail(a), Tail(b))

\* ORDER BY plugin_id ASC, sort_version DESC: the sort "name,-version"
OrderedBefore(r, s) ==
    \/ NameRank(r.plugin_id) < NameRank(s.plugin_id)
    \/ /\ r.plugin_id = s.plugin_id
       /\ StringLess(get_version_sorting_string(s.version),
                     get_version_sorting_string(r.version))

\* the rows in the order of the order_by clauses; row_number() is the index
order_by(rows) ==
    [i \in 1..Cardinality(rows) |->
        CHOOSE r \in rows : Cardinality({s \in rows : OrderedBefore(s, r)}) = i - 1]

\* query.offset(offset).limit(limit)
offset_limit(seq, offset, limit) ==
    SubSeq(seq, offset + 1, IF offset + limit < Len(seq) THEN offset + limit ELSE Len(seq))

NoCursor == 0
SURROUNDING_PAGES == 5
PageInfo(cursor, page, row) == [cursor |-> cursor, page |-> page, row |-> row]

\* the loop of digest_pages from page i on; acc holds its locals
RECURSIVE collect_pages(_, _, _, _, _, _)
collect_pages(pages, i, cursor, collection_size, page_offset, acc) ==
    IF i > Len(pages) \/ pages[i].row >= collection_size THEN acc
    ELSE IF cursor # NoCursor /\ pages[i].cursor = cursor
    THEN collect_pages(pages, i + 1, cursor, collection_size, page_offset,
                       [acc EXCEPT !.current_count = 0,
                                   !.cursor_row = pages[i].row,
                                   !.cursor_page = pages[i].page + page_offset])
    ELSE collect_pages(pages, i + 1, cursor, collection_size, page_offset,
                       [acc EXCEPT !.current_count = @ + 1,
                                   !.surrounding_pages =
                                       IF acc.current_count + 1 <= SURROUNDING_PAGES
                                       THEN Append(@, PageInfo(pages[i].cursor,
                                                               pages[i].page + page_offset,
                                                               pages[i].row + 1))
                                       ELSE @])

NoPage == PageInfo(NoCursor, 0, 0)

digest_pages(pages, cursor, collection_size) ==
    IF pages = <<>>
    THEN [surrounding_pages |-> <<>>, last_page |-> NoPage, cursor_row |-> 0,
          cursor_page |-> 1]
    ELSE LET page_offset == IF pages[1].modulo = 0 THEN 1 ELSE 2
             acc == collect_pages(pages, 1, cursor, collection_size, page_offset,
                                  [surrounding_pages |-> <<>>, current_count |-> 0,
                                   cursor_row |-> 0, cursor_page |-> 1])
             last_page == IF pages[Len(pages)].row >= collection_size /\ Len(pages) > 1
                          THEN pages[Len(pages) - 1] ELSE pages[Len(pages)]
         IN  [surrounding_pages |-> acc.surrounding_pages,
              last_page |-> PageInfo(last_page.cursor, last_page.page + page_offset,
                                     last_page.row + 1),
              cursor_row |-> acc.cursor_row, cursor_page |-> acc.cursor_page]

\* get_page_info for table RAMP with cursor column id; raised tells whether
\* the call ended with an exception
get_page_info(requested_cursor, item_count, filter_criteria) ==
    LET collection_size == Cardinality(and_(filter_criteria))
        cursor == IF \E r \in ramps : r.id = requested_cursor THEN requested_cursor
                  ELSE NoCursor
        query_rows == IF cursor = NoCursor \/ filter_criteria = <<>>
                      THEN and_(filter_criteria)
                      ELSE and_(filter_criteria) \cup {r \in ramps : r.id = cursor}
        numbered == order_by(query_rows)
        cursor_row == IF cursor = NoCursor THEN 0
                      ELSE CHOOSE i \in DOMAIN numbered : numbered[i].id = cursor
        page_rows == [i \in DOMAIN numbered |->
                        [cursor |-> numbered[i].id, row |-> i, page |-> i \div item_count,
                         modulo |-> i % item_count]]
        last_page == Len(numbered) \div item_count
        selected == {i \in DOMAIN page_rows :
                       /\ page_rows[i].modulo = cursor_row % item_count
                       /\ \/ /\ page_rows[i].page
                                  >= (cursor_row \div item_count) - SURROUNDING_PAGES
                             /\ page_rows[i].page
                                  <= (cursor_row \div item_count) + SURROUNDING_PAGES
                          \/ page_rows[i].page >= last_page - 1}
        pages == [k \in 1..Cardinality(selected) |->
                    page_rows[CHOOSE i \in selected :
                                 Cardinality({j \in selected : j < i}) = k - 1]]
        digest == digest_pages(pages, cursor, collection_size)
    IN  IF collection_size <= item_count
        THEN [raised |-> FALSE, collection_size |-> collection_size, cursor_row |-> 0,
              cursor_page |-> 1, surrounding_pages |-> <<>>,
              last_page |-> PageInfo(NoCursor, 1, 0),
              page_items |-> offset_limit(order_by(and_(filter_criteria)), 0, item_count)]
        ELSE IF cursor = NoCursor /\ unpack_raises(filter_criteria)
        THEN [raised |-> TRUE]
        ELSE [raised |-> FALSE, collection_size |-> collection_size,
              cursor_row |-> digest.cursor_row, cursor_page |-> digest.cursor_page,
              surrounding_pages |-> digest.surrounding_pages,
              last_page |-> digest.last_page,
              page_items |-> offset_limit(numbered, digest.cursor_row, item_count)]

\* the links to other pages of the response: the last page unless it is the
\* current one, and the surrounding pages; the link to the first page has no
\* cursor
generate_page_links(pagination_info) ==
    (IF pagination_info.last_page # NoPage
        /\ pagination_info.cursor_page # pagination_info.last_page.page
     THEN {pagination_info.last_page} ELSE {})
      \cup (Range(pagination_info.surrounding_pages) \ {pagination_info.last_page})
      \cup {PageInfo(NoCursor, 1, 0)}

\* PageResource.is_next: the links with relation "next"
NextLinks(response) == {l \in response.links : l.page - 1 = response.page}

\* the response of PluginsRootView.get to one request; collection is a ghost
\* field: the rows the filter selects, of which the page shows a part
PluginsResponse(tag_list, type_, item_count, cursor) ==
    LET filter_ == PluginsFilter(tag_list, type_)
        pagination_info == get_page_info(cursor, item_count, filter_)
    IN  IF pagination_info.raised
        THEN [status |-> "500", items |-> <<>>, collection_size |-> 0, page |-> 0,
              links |-> {}, collection |-> {r.id : r \in and_(filter_)}]
        ELSE [status |-> "200",
              items |-> [i \in DOMAIN pagination_info.page_items |->
                            pagination_info.page_items[i].id],
              collection_size |-> pagination_info.collection_size,
              page |-> pagination_info.cursor_page,
              links |-> generate_page_links(pagination_info),
              collection |-> {r.id : r \in and_(filter_)}]

\* a client asks for the first page
PluginsGet(tag_list, type_, item_count) ==
    /\ rec = NoRequest
    /\ budget.requests < MaxRequests
    /\ budget' = [budget EXCEPT !.requests = @ + 1]
    /\ rec' = [pc |-> "plugins", tags |-> tag_list, type_ |-> type_,
               item_count |-> item_count, visited |-> <<>>,
               response |-> PluginsResponse(tag_list, type_, item_count, NoCursor)]
    /\ event' = Ev("get", NoItem, rec'.response.status, "none", {})
    /\ UNCHANGED <<clock, config, seedTable, ramps, nextRampId, tagTable, owned,
                   tabs, queue, worker>>

\* the client follows the link with relation "next" of the page it has;
\* visited is a ghost: the items of the pages it has left
FollowNext ==
    /\ rec.pc = "plugins"
    /\ Len(rec.visited) < Cardinality(ramps)
    /\ \E link \in NextLinks(rec.response) :
         rec' = [rec EXCEPT !.visited = @ \o rec.response.items,
                            !.response = PluginsResponse(rec.tags, rec.type_,
                                                         rec.item_count, link.cursor)]
    /\ event' = Ev("get", NoItem, rec'.response.status, "none", {})
    /\ UNCHANGED <<clock, config, seedTable, ramps, nextRampId, tagTable, owned,
                   tabs, queue, worker, budget>>

MaxItemCount == 2
TagNames == {"t1", "t2", "t3", "t9"}
TagEntries == {TagEntry(n, b) : n \in TagNames, b \in BOOLEAN}
TagLists == {<<>>} \cup {<<e>> : e \in TagEntries}
              \cup {<<e, f>> : e \in TagEntries, f \in TagEntries}
TypeParameters == {NoType, "processing"}

InitQuery ==
    /\ clock = 0
    /\ config = [URL_MAP_TO_LOCALHOST |-> <<>>,
                 URL_MAP_FROM_LOCALHOST |-> <<>>,
                 PLUGIN_PURGE_AFTER |-> [kind |-> "never"],
                 PLUGIN_BATCH_SIZE |-> 2,
                 PLUGIN_RECOMMENDER_WEIGHTS |-> <<>>,
                 RESULT_BACKEND |-> "database"]
    /\ seedTable = FilterCatalogUrls
    /\ ramps \in FilterCatalogs
    /\ nextRampId = Len(FilterCatalogUrls) + 1
    /\ tagTable = {"t1", "t2", "t3"}
    /\ owned = OwnedBy(ramps)
    /\ tabs = <<>>
    /\ queue = EmptyBag
    /\ worker = [w \in Workers |-> Idle]
    /\ budget = [ticks |-> 0, posts |-> 0, purges |-> 0, requests |-> 0]
    /\ rec = NoRequest
    /\ event = NoEvent

NextQuery ==
    \/ \E tag_list \in TagLists, type_ \in TypeParameters, item_count \in 1..MaxItemCount :
         PluginsGet(tag_list, type_, item_count)
    \/ FollowNext

SpecQuery == InitQuery /\ [][NextQuery]_vars

\* C23: a query by tags returns exactly the plugins that carry every must-have
\* tag and none of the forbidden tags, and no plugin at all when the name of a
\* must-have tag is unknown
C23_TagQuery ==
    (rec.pc = "plugins" /\ rec.type_ = NoType) =>
        LET must_have == {e.name : e \in {e \in Range(rec.tags) : ~e.negated}}
            forbidden == {e.name : e \in {e \in Range(rec.tags) : e.negated}}
        IN  rec.response.collection =
              IF must_have \subseteq tagTable
              THEN {r.id : r \in {r \in ramps : /\ must_have \subseteq r.tags
                                                /\ forbidden \cap r.tags = {}}}
              ELSE {}

\* C24: starting at page 1 and following the next link visits every row the
\* filter selects exactly once, in sort order, and then stops; every page
\* reports the number of the selected rows as the total count
C24_PaginationVisitsAll ==
    rec.pc = "plugins" =>
        LET rows == order_by({r \in ramps : r.id \in rec.response.collection})
            sorted == [i \in DOMAIN rows |-> rows[i].id]
            seen == rec.visited \o rec.response.items
        IN  /\ rec.response.collection_size = Len(sorted)
            /\ seen = SubSeq(sorted, 1, Len(seen))
            /\ NextLinks(rec.response) = {} => seen = sorted

(***************************************************************************)
(* api/seeds/root.py: POST /api/seeds/                                     *)
(***************************************************************************)
\* Seed.exists([Seed.url == seed_url])
Seed_exists_LastOnly(seed_url) ==
    seedTable # <<>> /\ seedTable[Len(seedTable)] = seed_url
Seed_exists(seed_url) == \E i \in DOMAIN seedTable : seedTable[i] = seed_url

MaxSeedPosts == 3
SeedUrls == {RunnerUrl, NestedRunnerUrl, Url("docker", <<"r", "p1">>)}

\* the handlers of the requests run side by side; rec holds the requests
\* that have passed the test for an existing url and have not committed yet
NoSeedRequests == [pc |-> "seeds", posts |-> 0, pending |-> EmptyBag]

\* the first half of SeedsRootView.post: the url is looked up and the request
\* with a url that exists is aborted
SeedPost(seed_url) ==
    /\ rec.pc = "seeds"
    /\ rec.posts < MaxSeedPosts
    /\ IF Seed_exists(seed_url)
       THEN /\ rec' = [rec EXCEPT !.posts = @ + 1]
            /\ event' = Ev("post_seed", NoItem, "409", "none", {})
       ELSE /\ rec' = [rec EXCEPT !.posts = @ + 1,
                                  !.pending = @ (+) SetToBag({seed_url})]
            /\ event' = Ev("post_seed", NoItem, "none", "none", {})
    /\ UNCHANGED <<clock, config, seedTable, ramps, nextRampId, tagTable, owned,
                   tabs, queue, worker, budget>>

\* the second half: DB.session.add(created_seed) and the commit
SeedCommit(seed_url) ==
    /\ rec.pc = "seeds"
    /\ BagIn(seed_url, rec.pending)
    /\ rec' = [rec EXCEPT !.pending = @ (-) SetToBag({seed_url})]
    /\ seedTable' = Append(seedTable, seed_url)
    /\ event' = Ev("commit_seed", NoItem, "200", "none", {})
    /\ UNCHANGED <<clock, config, ramps, nextRampId, tagTable, owned, tabs, queue,
                   worker, budget>>

InitSeeds ==
    /\ clock = 0
    /\ config = [URL_MAP_TO_LOCALHOST |-> <<>>,
                 URL_MAP_FROM_LOCALHOST |-> <<>>,
                 PLUGIN_PURGE_AFTER |-> [kind |-> "never"],
                 PLUGIN_BATCH_SIZE |-> 2,
                 PLUGIN_RECOMMENDER_WEIGHTS |-> <<>>,
                 RESULT_BACKEND |-> "database"]
    /\ seedTable \in {<<>>} \cup {<<u>> : u \in SeedUrls}
                      \cup {<<u, v>> : <<u, v>> \in {p \in SeedUrls \X SeedUrls : p[1] # p[2]}}
    /\ ramps = {}
    /\ nextRampId = 1
    /\ tagTable = {}
    /\ owned = NoOwnedRows
    /\ tabs = <<>>
    /\ queue = EmptyBag
    /\ worker = [w \in Workers |-> Idle]
    /\ budget = [ticks |-> 0, posts |-> 0, purges |-> 0, requests |-> 0]
    /\ rec = NoSeedRequests
    /\ event = NoEvent

NextSeeds ==
    \/ \E seed_url \in SeedUrls : SeedPost(seed_url)
    \/ \E seed_url \in SeedUrls : SeedCommit(seed_url)

SpecSeeds == InitSeeds /\ [][NextSeeds]_vars

\* C25: a POST with a url that is stored as a seed is answered with 409,
\* creates no seed and leaves the seed table as it is
C25_ExistingSeedConflicts ==
    [][\A seed_url \in SeedUrls :
          (SeedPost(seed_url) /\ seed_url \in Range(seedTable)) =>
              /\ event'.resp = "409"
              /\ seedTable' = seedTable
              /\ rec'.pending = rec.pending]_vars

\* a stored url that is not the last row has been posted again and turned
\* down while another request was about to commit
C25_Witness ==
    /\ event.step = "post_seed" /\ event.resp = "409"
    /\ Len(seedTable) >= 2
    /\ rec.pending # EmptyBag

(***************************************************************************)
(* update_plugin_lists alone: tabs that were evaluated when only a part of *)
(* the catalog was known, and the task for one of the plugins found since. *)
(***************************************************************************)
UpdateFilters == {[tag |-> "t1"], [tag |-> "t2"], [type |-> "processing"],
                  [not |-> [tag |-> "t1"]]}

InitUpdate ==
    /\ clock = 0
    /\ config = [URL_MAP_TO_LOCALHOST |-> <<>>,
                 URL_MAP_FROM_LOCALHOST |-> <<>>,
                 PLUGIN_PURGE_AFTER |-> [kind |-> "never"],
                 PLUGIN_BATCH_SIZE |-> 2,
                 PLUGIN_RECOMMENDER_WEIGHTS |-> <<>>,
                 RESULT_BACKEND |-> "database"]
    /\ seedTable = CatalogUrls
    /\ \E present \in SUBSET DOMAIN CatalogUrls :
         ramps = {NewRamp(i, PluginResource(CatalogUrls[i]), CatalogUrls[i], NoUrl, 0,
                          CatalogUrls[i]) : i \in present}
    /\ nextRampId = Len(CatalogUrls) + 1
    /\ tagTable = UNION {TagsOf(PluginResource(r.url)) : r \in ramps}
    /\ owned = OwnedBy(ramps)
    /\ \E known \in SUBSET ramps, f \in UpdateFilters, g \in UpdateFilters :
         /\ known # ramps
         /\ tabs = <<[filter_string |-> json_dumps(f),
                      plugins |-> SortedSeq(get_plugins_from_filter(f, known))],
                     [filter_string |-> json_dumps(g),
                      plugins |-> SortedSeq(get_plugins_from_filter(g, known))]>>
         /\ \E r \in ramps \ known : queue = MsgBag(UpdateMsg(r.id))
    /\ worker = [w \in Workers |-> Idle]
    /\ budget = [ticks |-> 0, posts |-> 0, purges |-> 0, requests |-> 0]
    /\ rec = NoRequest
    /\ event = NoEvent

NextUpdate ==
    \/ \E w \in Workers : TakeTask(w)
    \/ \E w \in Workers : EvalCount(w)
    \/ \E w \in Workers : EvalBatch(w)
    \/ \E w \in Workers : WriteTab(w)

SpecUpdate == InitUpdate /\ [][NextUpdate]_vars

\* a worker leaves update_plugin_lists
UpdateEnds ==
    \E w \in Workers : worker[w].task = "update_plugin_lists" /\ worker'[w] = Idle

\* C26: when update_plugin_lists(plugin_id) has completed, the membership of
\* every tab is what the evaluation of the tab's filter over the whole catalog
\* gives, whatever the memberships were before
C26_UpdateEqualsReevaluation ==
    [][UpdateEnds =>
         \A t \in DOMAIN tabs :
            Range(tabs'[t].plugins) = Selected(json_loads(tabs[t].filter_string))]_vars

(***************************************************************************)
(* apply_filter_for_tab while purge_plugins deletes rows: every statement  *)
(* of the task reads the rows committed so far.                            *)
(***************************************************************************)
RaceFilters == {[tag |-> "t1"], [not |-> [type |-> "processing"]]}

InitRace ==
    /\ clock \in 0..MaxTime
    /\ config \in [URL_MAP_TO_LOCALHOST : {<<>>},
                   URL_MAP_FROM_LOCALHOST : {<<>>},
                   PLUGIN_PURGE_AFTER : PurgeAfterValues,
                   PLUGIN_BATCH_SIZE : {2},
                   PLUGIN_RECOMMENDER_WEIGHTS : {<<>>},
                   RESULT_BACKEND : {"database"}]
    /\ seedTable = CatalogUrls
    /\ ramps \in Catalogs
    /\ \A r \in ramps : r.last_available <= clock
    /\ nextRampId = Len(CatalogUrls) + 1
    /\ tagTable = UNION {TagsOf(PluginResource(r.url)) : r \in ramps}
    /\ owned = OwnedBy(ramps)
    /\ \E f \in RaceFilters : tabs = <<[filter_string |-> json_dumps(f), plugins |-> <<>>]>>
    /\ queue = MsgBag(ApplyMsg(1))
    /\ worker = [w \in Workers |-> Idle]
    /\ budget = [ticks |-> 0, posts |-> 0, purges |-> 0, requests |-> 0]
    /\ rec = NoRequest
    /\ event = NoEvent

NextRace ==
    \/ purge_plugins
    \/ \E w \in Workers : TakeTask(w)
    \/ \E w \in Workers : EvalCount(w)
    \/ \E w \in Workers : EvalBatch(w)
    \/ \E w \in Workers : WriteTab(w)

SpecRace == InitRace /\ [][NextRace]_vars

\* apply_filter_for_tab commits a membership
ApplyWrites ==
    \E w \in Workers : /\ worker[w].task = "apply_filter_for_tab"
                       /\ event'.step = "write" /\ event'.raised = "none"

\* C27: the membership one run of apply_filter_for_tab writes has no plugin
\* twice and is the match set of the filter over the catalog of one moment of
\* the run. Nothing is inserted here, so a row that is in the catalog when the
\* membership is written was in it at every moment of the run: the written
\* membership holds no plugin twice, and it holds every such row that
\* matches the filter.
C27_BatchesSeeOneCatalog ==
    [][ApplyWrites =>
         LET plugins == tabs'[1].plugins
             plugin_filter == json_loads(tabs[1].filter_string)
         IN  /\ NoDuplicates(plugins)
             /\ \A r \in ramps :
                   r.id \in get_plugins_from_filter(plugin_filter, {r})
                     => r.id \in Range(plugins)]_vars

\* C28: the result of a recommendation request does not depend on the order
\* in which the voter tasks finish: when the request is answered and every
\* task had finished before the wait ended, the result is the merge of the
\* votes of all tasks taken in the order of the group, whichever task
\* finished first and whichever order the backend joined them in
C28_FinishOrderIrrelevant ==
    (rec.pc = "done" /\ ~rec.expired) =>
        /\ \A i \in DOMAIN rec.tasks : rec.tasks[i].state = "SUCCESS"
        /\ rec.result =
             filter_votes(rec.context,
                          merge_results([i \in DOMAIN rec.tasks |->
                                            <<rec.tasks[i].name, rec.tasks[i].result>>],
                                        config.PLUGIN_RECOMMENDER_WEIGHTS),
                          ramps)

\* a request with three voters that voted differently, joined as they
\* finished, has been answered with a result
C28_Witness ==
    /\ rec.pc = "done" /\ ~rec.expired
    /\ config.RESULT_BACKEND = "redis"
    /\ Len(rec.tasks) >= 3
    /\ rec.tasks[1].result # <<>> /\ rec.tasks[2].result # rec.tasks[1].result
    /\ rec.tasks[3].result # <<>>
    /\ rec.result # <<>>

(***************************************************************************)
(* Discovery over a catalog that was discovered before: the periodic task  *)
(* and POST /api/plugins/ visit plugins that have a row.                   *)
(***************************************************************************)
InitRediscover ==
    /\ clock = 0
    /\ config \in [URL_MAP_TO_LOCALHOST : {<<>>},
                   URL_MAP_FROM_LOCALHOST : {<<>>},
                   PLUGIN_PURGE_AFTER : {[kind |-> "never"]},
                   PLUGIN_BATCH_SIZE : {2},
                   PLUGIN_RECOMMENDER_WEIGHTS : {<<>>},
                   RESULT_BACKEND : {"database"}]
    /\ seedTable = SubSeq(CatalogUrls, 1, 2)
    /\ ramps = {NewRamp(i, PluginResource(seedTable[i]), seedTable[i], NoUrl, 0,
                        seedTable[i]) : i \in DOMAIN seedTable}
    /\ nextRampId = Len(seedTable) + 1
    /\ tagTable = UNION {TagsOf(PluginResource(r.url)) : r \in ramps}
    /\ owned = OwnedBy(ramps)
    /\ tabs = <<>>
    /\ queue = EmptyBag
    /\ worker = [w \in Workers |-> Idle]
    /\ budget = [ticks |-> 0, posts |-> 0, purges |-> 0, requests |-> 0]
    /\ rec = NoRequest
    /\ event = NoEvent

NextRediscover ==
    \/ Tick
    \/ start_plugin_discovery
    \/ \E url \in Range(seedTable) : PostPlugins(url)
    \/ \E w \in Workers : TakeTask(w)
    \/ \E w \in Workers : DiscoverRequest(w)
    \/ \E w \in Workers : DiscoverCommit(w)

SpecRediscover == InitRediscover /\ [][NextRediscover]_vars

\* C29: the last_available of a plugin never moves backwards, whatever the
\* discovery tasks for the plugin are and however they interleave
C29_LastAvailableMonotone ==
    [][\A r \in ramps : \A s \in ramps' :
          s.id = r.id => s.last_available >= r.last_available]_vars

\* C30: a tab with the empty filter string does not make the materializer
\* fail: the step of apply_filter_for_tab or update_plugin_lists that reads
\* the filter of such a tab raises nothing, and update_plugin_lists goes on
\* with the tabs it has not evaluated yet
C30_EmptyFilterTolerated ==
    [][\A w \in Workers :
          (/\ worker[w].task \in MaterializerTasks
           /\ worker'[w] # worker[w]
           /\ tabs[Head(worker[w].todo)].filter_string = EMPTY_STRING)
          => /\ event'.raised = "none"
             /\ Len(worker[w].todo) > 1 => worker'[w].task = "update_plugin_lists"]_vars

====
